---- MODULE Spec2Model ----
(***************************************************************************)
(* State-machine model of the video-gallery service: the catalog cache     *)
(* (Service.GetVideosInternal over a go-cache entry "videos") and the      *)
(* thumbnail pipeline (GenerateThumbnailWithProgress, ClearThumbnail,      *)
(* FetchMoviePoster, BulkGenerateThumbnails, BulkClearThumbnails).         *)
(* Object keys and file names are sequences of one-character strings, so   *)
(* that strings.Split, strings.HasSuffix, filepath.Ext and filepath.Base   *)
(* are computed the way the Go code computes them.                         *)
(***************************************************************************)
EXTENDS Integers, Sequences, FiniteSets, TLC

VARIABLES
    bucket,     \* object key -> content of the object ("none" when absent)
    bucket0,    \* the bucket when the service started
    scratch,    \* scratch file name -> [c: content, by: creating call]
    cache,      \* the go-cache entry "videos": NoEntry or [present, val, epoch, exp]
    now,        \* wall clock, in minutes
    flushes,    \* number of videoCache.Flush() calls completed so far
    lastRet,    \* what the GetVideosInternal call that returned last returned,
                \* NoRet before the first return and after a Flush
    pc,         \* call -> position of the call in its function
    op,         \* call -> the service function the call runs
    arg,        \* call -> the call's argument (object key, or the force flag)
    res,        \* call -> "none" while running, "ok", or the name of the failed step
    rd,         \* GetVideosInternal call -> its locals and what it returned
    mu,         \* thumbnail call -> its locals and what it did
    config,     \* the service configuration: SecretKey
    fn          \* a helper function called on its own: [name, in, out]

vars ==
    <<bucket, bucket0, scratch, cache, now, flushes, lastRet, pc, op, arg, res, rd, mu,
      config, fn>>

(***************************************************************************)
(* Strings                                                                 *)
(***************************************************************************)

\* strings.HasSuffix(s, suffix)
HasSuffix(s, suffix) ==
    /\ Len(s) >= Len(suffix)
    /\ SubSeq(s, Len(s) - Len(suffix) + 1, Len(s)) = suffix

\* strings.HasPrefix(s, prefix)
HasPrefix(s, prefix) ==
    /\ Len(s) >= Len(prefix)
    /\ SubSeq(s, 1, Len(prefix)) = prefix

RECURSIVE SplitRec(_, _, _)
SplitRec(s, i, cur) ==
    IF i > Len(s) THEN <<cur>>
    ELSE IF s[i] = "/" THEN <<cur>> \o SplitRec(s, i + 1, <<>>)
    ELSE SplitRec(s, i + 1, Append(cur, s[i]))

\* strings.Split(s, "/")
Split(s) == SplitRec(s, 1, <<>>)

\* filepath.Ext(path): the suffix beginning at the final dot of the final
\* element; the loop runs from the end and stops at a slash or a dot
Ext(path) ==
    LET stops == {i \in 1..Len(path) : path[i] \in {"/", "."}}
    IN  IF stops = {} THEN <<>>
        ELSE LET i == CHOOSE k \in stops : \A j \in stops : j <= k
             IN  IF path[i] = "." THEN SubSeq(path, i, Len(path)) ELSE <<>>

RECURSIVE StripSlashes(_)
StripSlashes(path) ==
    IF path # <<>> /\ path[Len(path)] = "/"
    THEN StripSlashes(SubSeq(path, 1, Len(path) - 1))
    ELSE path

\* filepath.Base(path): the last element of path
Base(path) ==
    IF path = <<>> THEN <<".">>
    ELSE LET t == StripSlashes(path)
         IN  IF t = <<>> THEN <<"/">>
             ELSE LET slashes == {i \in 1..Len(t) : t[i] = "/"}
                  IN  IF slashes = {} THEN t
                      ELSE SubSeq(t, 1 + (CHOOSE k \in slashes : \A j \in slashes : j <= k),
                                  Len(t))

\* strings.Index(s, ch) for a one-character ch, 1-based; 0 when absent
Index(s, ch) ==
    LET hits == {i \in 1..Len(s) : s[i] = ch}
    IN  IF hits = {} THEN 0 ELSE CHOOSE k \in hits : \A j \in hits : k <= j

Digits == <<"0", "1", "2", "3", "4", "5", "6", "7", "8", "9">>
Lower ==
    <<"a", "b", "c", "d", "e", "f", "g", "h", "i", "j", "k", "l", "m",
      "n", "o", "p", "q", "r", "s", "t", "u", "v", "w", "x", "y", "z">>
Upper ==
    <<"A", "B", "C", "D", "E", "F", "G", "H", "I", "J", "K", "L", "M",
      "N", "O", "P", "Q", "R", "S", "T", "U", "V", "W", "X", "Y", "Z">>

\* the position of ch in seq, 0 when it is not there
PosIn(seq, ch) ==
    IF \E i \in 1..Len(seq) : seq[i] = ch
    THEN CHOOSE i \in 1..Len(seq) : seq[i] = ch
    ELSE 0

\* strings.ToLower(s), on ASCII letters
ToLower(s) ==
    [i \in 1..Len(s) |-> IF PosIn(Upper, s[i]) > 0 THEN Lower[PosIn(Upper, s[i])] ELSE s[i]]

\* strings.Contains(s, substr)
Contains(s, substr) ==
    \E i \in 1..(Len(s) + 1) :
        /\ i + Len(substr) - 1 <= Len(s)
        /\ SubSeq(s, i, i + Len(substr) - 1) = substr

\* strings.TrimSpace(s), on the space character
RECURSIVE TrimSpace(_)
TrimSpace(s) ==
    IF s # <<>> /\ s[1] = " " THEN TrimSpace(Tail(s))
    ELSE IF s # <<>> /\ s[Len(s)] = " " THEN TrimSpace(SubSeq(s, 1, Len(s) - 1))
    ELSE s

\* the length above which getSafeFilename replaces the name by a hashed one
MaxBaseNameLen == 200

\* the number of leading characters getSafeFilename keeps of a long name
ShortNameLen == 20

\* the byte of a character (s1[i] < s2[j] compares bytes)
ByteOf(ch) ==
    IF PosIn(Digits, ch) > 0 THEN 47 + PosIn(Digits, ch)
    ELSE IF PosIn(Upper, ch) > 0 THEN 64 + PosIn(Upper, ch)
    ELSE IF PosIn(Lower, ch) > 0 THEN 96 + PosIn(Lower, ch)
    ELSE CASE ch = " " -> 32
           [] ch = "-" -> 45
           [] ch = "." -> 46
           [] ch = "/" -> 47
           [] ch = "_" -> 95
           [] OTHER -> 63

HexAlphabet == Digits \o <<"a", "b", "c", "d", "e", "f">>

\* two bytes of sha256(path), as a number: a fixed function of the bytes and
\* of the position of the two bytes in the sum (a hash computed over the
\* halves of the input stands for the digest)
RECURSIVE Sha256Pair(_, _)
Sha256Pair(bytes, at) ==
    IF bytes = <<>> THEN 7 + at
    ELSE IF Len(bytes) = 1 THEN (31 * (7 + at) + ByteOf(bytes[1])) % (16 ^ 4)
    ELSE LET half == Len(bytes) \div 2
         IN  (131 * Sha256Pair(SubSeq(bytes, 1, half), at)
                + 31 * Sha256Pair(SubSeq(bytes, half + 1, Len(bytes)), at)
                + Len(bytes)) % (16 ^ 4)

\* hex.EncodeToString(sha256.Sum256(path)[:8]): sixteen characters, four for
\* each two bytes of the sum
Sha256Hex8(path) ==
    [i \in 1..16 |->
        HexAlphabet[((Sha256Pair(path, (i - 1) \div 4) \div (16 ^ (3 - ((i - 1) % 4)))) % 16) + 1]]

\* the strings.Map call of getSafeFilename
SafeChar(ch) ==
    IF ch \in {"<", ">", ":", "\"", "/", "\\", "|", "?", "*"} THEN "_" ELSE ch

getSafeFilename(path) ==
    LET q        == Index(path, "?")
        p        == IF q # 0 THEN SubSeq(path, 1, q - 1) ELSE path
        baseName == Base(p)
    IN  IF Len(baseName) > MaxBaseNameLen
        THEN LET short == IF Len(baseName) > ShortNameLen
                          THEN SubSeq(baseName, 1, ShortNameLen)
                          ELSE baseName
             IN  [i \in 1..Len(short) |-> SafeChar(short[i])]
                 \o <<"-">> \o Sha256Hex8(p) \o Ext(baseName)
        ELSE baseName

videoExtensions ==
    { <<".", "m", "p", "4">>, <<".", "m", "4", "v">>, <<".", "w", "e", "b", "m">>,
      <<".", "m", "o", "v">>, <<".", "a", "v", "i">> }

imageExtensions ==
    { <<".", "j", "p", "g">>, <<".", "j", "p", "e", "g">>, <<".", "p", "n", "g">> }

\* len(parts) != 3 || parts[2] == "" is the skip rule of every bucket loop
Participates(name) ==
    LET parts == Split(name) IN Len(parts) = 3 /\ parts[3] # <<>>

\* the loop "for _, ext := range videoExtensions { if strings.HasSuffix(filename, ext)"
isVideo(name) ==
    LET parts == Split(name)
    IN  \E ext \in videoExtensions : HasSuffix(parts[Len(parts)], ext)

isImage(name) ==
    LET parts == Split(name)
    IN  \E ext \in imageExtensions : HasSuffix(parts[Len(parts)], ext)

\* videoPath[:len(videoPath)-len(filepath.Ext(videoPath))]
BasePath(name) == SubSeq(name, 1, Len(name) - Len(Ext(name)))

\* basePath + ".jpg"
ThumbnailPath(videoPath) == BasePath(videoPath) \o <<".", "j", "p", "g">>

(***************************************************************************)
(* The bucket of the model                                                 *)
(***************************************************************************)

VidA == <<"a", "/", "g", "/", "v", "1", ".", "m", "p", "4">>
VidB == <<"a", "/", "g", "/", "v", "2", ".", "m", "o", "v">>
VidC == <<"b", "/", "h", "/", "v", "1", ".", "m", "p", "4">>
JpgA == <<"a", "/", "g", "/", "v", "1", ".", "j", "p", "g">>
JpgB == <<"a", "/", "g", "/", "v", "2", ".", "j", "p", "g">>
PngB == <<"a", "/", "g", "/", "v", "2", ".", "p", "n", "g">>
JpgC == <<"b", "/", "h", "/", "v", "1", ".", "j", "p", "g">>
\* an image at the bucket root: one segment, outside the path convention
RootJpg == <<"x", ".", "j", "p", "g">>

Videos == {VidA, VidB, VidC}
Thumbs == {JpgA, JpgB, PngB, JpgC}
AllKeys == Videos \cup Thumbs \cup {RootJpg}

\* bucket.Objects lists the object names in lexicographic order
KeyOrder == <<JpgA, VidA, JpgB, VidB, PngB, JpgC, VidC, RootJpg>>

ScratchPaths == {getSafeFilename(k) : k \in AllKeys}

\* no helper function is called on its own
NoCall == [name |-> "none", in |-> <<>>, out |-> <<>>, done |-> FALSE]

\* values of config.SecretKey
SecretA == <<"k", "1">>
SecretB == <<"k", "2">>

NoFile == [c |-> "none", by |-> "nobody"]
NoEntry == [present |-> FALSE]
NoRet == [how |-> "none"]

Present(b) == {k \in AllKeys : b[k] # "none"}

\* the names one iteration of bucket.Objects(ctx, nil) yields
Listing(b) == SelectSeq(KeyOrder, LAMBDA k : b[k] # "none")

\* a bucket with the three videos, the root image and the thumbnails in T
BucketWith(T) ==
    [k \in AllKeys |->
        IF k \in Videos THEN "video"
        ELSE IF k = RootJpg \/ k \in T THEN "old"
        ELSE "none"]

(***************************************************************************)
(* Calls                                                                   *)
(***************************************************************************)

Readers == {"r1", "r2", "r3"}
Mutators == {"m1", "m2"}
Calls == Readers \cup Mutators

\* cache.New(5*time.Minute, ...): the default expiration, in minutes
TTL == 5
\* the clock stops here
MaxTime == 6

NoRead ==
    [ret |-> {}, how |-> "none", retEpoch |-> 0, listed |-> {}, listEpoch |-> 0,
     startEpoch |-> 0]

NoMut ==
    [steps |-> <<>>, dirty |-> FALSE, nflush |-> 0, defers |-> <<>>,
     validated |-> FALSE, list1 |-> <<>>, listing |-> <<>>, idx |-> 0,
     thumbs |-> {}, selected |-> {}, cur |-> <<>>,
     processed |-> 0, errors |-> 0, deleted |-> 0, flushAt |-> 0, racing |-> FALSE,
     wrote |-> {}, events |-> <<>>]

(***************************************************************************)
(* The cache entry "videos" (github.com/patrickmn/go-cache)                *)
(***************************************************************************)

\* a lookup that never expires the entry
CacheFound_NeverExpires(c, t) == c.present

\* videoCache.Get("videos"): found unless the entry is absent or now is
\* past its expiration
CacheFound(c, t) == c.present /\ ~(t > c.exp)

\* videoCache.Set("videos", videos, cache.DefaultExpiration)
CacheSet(val, epoch, t) ==
    [present |-> TRUE, val |-> val, epoch |-> epoch, exp |-> t + TTL]

\* videoCache.Flush()
Flush ==
    /\ cache' = NoEntry
    /\ flushes' = flushes + 1
    /\ lastRet' = NoRet

(***************************************************************************)
(* Service.GetVideosInternal                                               *)
(***************************************************************************)

\* the call ends: what it returned, and the listing the result was built from
ReadDone(r, val, how, epoch) ==
    [r EXCEPT !.ret = val, !.how = how, !.retEpoch = epoch]

\* RLock; videoCache.Get("videos"); RUnlock: a hit returns the cached slice.
\* On a miss storage.NewClient(ctx) follows: when it fails the call returns
\* []models.Video{} and stores nothing
GetVideosCheck(p) ==
    /\ pc[p] = "idle"
    /\ LET r == [rd[p] EXCEPT !.startEpoch = flushes]
       IN  IF CacheFound(cache, now)
           THEN /\ rd' = [rd EXCEPT ![p] = ReadDone(r, cache.val, "hit", cache.epoch)]
                /\ pc' = [pc EXCEPT ![p] = "done"]
                /\ lastRet' = [val |-> cache.val, how |-> "hit", at |-> now]
           ELSE \E ok \in BOOLEAN :
                  IF ok
                  THEN /\ rd' = [rd EXCEPT ![p] = r]
                       /\ pc' = [pc EXCEPT ![p] = "scan"]
                       /\ lastRet' = lastRet
                  ELSE /\ rd' = [rd EXCEPT ![p] = ReadDone(r, {}, "fail", flushes)]
                       /\ pc' = [pc EXCEPT ![p] = "done"]
                       /\ lastRet' = [val |-> {}, how |-> "fail", at |-> now]
    /\ op' = [op EXCEPT ![p] = "catalog"]
    /\ UNCHANGED <<fn, config, bucket0, bucket, scratch, cache, now, flushes, arg, res, mu>>

\* the loop over bucket.Objects: the objects that pass the three-segment rule
GetVideosScan(p) ==
    /\ pc[p] = "scan"
    /\ rd' = [rd EXCEPT ![p].listed = {k \in Present(bucket) : Participates(k)},
                        ![p].listEpoch = flushes]
    /\ pc' = [pc EXCEPT ![p] = "store"]
    /\ UNCHANGED <<fn, config, bucket0, bucket, scratch, cache, now, flushes, lastRet, op, arg, res, mu>>

\* Lock; videoCache.Set("videos", videos, DefaultExpiration); Unlock; return videos
GetVideosStore(p) ==
    /\ pc[p] = "store"
    /\ cache' = CacheSet(rd[p].listed, rd[p].listEpoch, now)
    /\ rd' = [rd EXCEPT ![p] =
                ReadDone(rd[p], rd[p].listed, "scan", rd[p].listEpoch)]
    /\ lastRet' = [val |-> rd[p].listed, how |-> "scan", at |-> now]
    /\ pc' = [pc EXCEPT ![p] = "done"]
    /\ UNCHANGED <<fn, config, bucket0, bucket, scratch, now, flushes, op, arg, res, mu>>

GetVideosInternal(p) ==
    \/ GetVideosCheck(p)
    \/ GetVideosScan(p)
    \/ GetVideosStore(p)

\* time passes
Tick ==
    /\ now < MaxTime
    /\ now' = now + 1
    /\ UNCHANGED <<fn, config, bucket0, bucket, scratch, cache, flushes, lastRet, pc, op, arg, res, rd, mu>>

(***************************************************************************)
(* Steps shared by the thumbnail functions                                 *)
(***************************************************************************)

\* the call logs that it ran step s and whether the step succeeded
Ran(m, s, ok) == [mu[m] EXCEPT !.steps = Append(@, [s |-> s, ok |-> ok])]

\* the call logs its videoCache.Flush(): nothing it wrote is unflushed now
Flushed(m) ==
    [Ran(m, "flush", TRUE) EXCEPT
        !.dirty = FALSE, !.nflush = @ + 1, !.flushAt = flushes + 1,
        !.racing = \E p \in Readers : pc[p] \in {"scan", "store"}]

\* return fmt.Errorf(...) naming step s: the deferred calls run in Return
Failed(m, s) ==
    /\ res' = [res EXCEPT ![m] = s]
    /\ pc' = [pc EXCEPT ![m] = "ret"]

RECURSIVE RemoveAll(_, _)
\* os.Remove of each deferred path
RemoveAll(fs, paths) ==
    IF paths = <<>> THEN fs
    ELSE RemoveAll([fs EXCEPT ![Head(paths)] = NoFile], Tail(paths))

\* the function returns: its deferred os.Remove calls run.  When
\* GenerateThumbnailWithProgress returned an error, GenerateThumbnailHandler
\* writes the event {error, progress: -1} and returns
Return(m) ==
    /\ pc[m] = "ret"
    /\ scratch' = RemoveAll(scratch, mu[m].defers)
    /\ pc' = [pc EXCEPT ![m] = "done"]
    /\ mu' = [mu EXCEPT ![m].events =
                IF op[m] = "generate" /\ res[m] # "ok"
                THEN Append(@, [error |-> res[m], progress |-> -1])
                ELSE @]
    /\ UNCHANGED <<fn, config, bucket0, bucket, cache, now, flushes, lastRet, op, arg, res, rd>>

(***************************************************************************)
(* The helper functions of the pipeline, on the scratch directory.  A      *)
(* scratch file is [c, by]: c is "none" (no file), "video", "partial" (a   *)
(* file created but not completely written), "good" (a frame that passes   *)
(* validateThumbnail), "blank" (a solid-color frame) or "poster"; by is    *)
(* the call that created the file.                                         *)
(***************************************************************************)

\* what downloadFile can do: os.Create fails ("create"), the object cannot be
\* read after the file was created ("read"), or the object is copied ("ok")
DownloadOutcomes(b, src) ==
    IF b[src] = "none" THEN {"create", "read"} ELSE {"create", "read", "ok"}

downloadFile(fs, b, src, dst, m, o) ==
    CASE o = "create" -> fs
      [] o = "read"   -> [fs EXCEPT ![dst] = [c |-> "partial", by |-> m]]
      [] o = "ok"     -> [fs EXCEPT ![dst] = [c |-> b[src], by |-> m]]

\* what ffmpeg can do with the local video: write a frame ("good", "blank"),
\* or exit with an error, leaving no output ("fail") or an incomplete one
FFmpegOutcomes(fs, videoFile) ==
    IF fs[videoFile].c = "video"
    THEN {"good", "blank", "fail", "failpartial"}
    ELSE {"fail"}

createThumbnailWithFFmpeg(fs, thumbnailFile, m, o) ==
    CASE o \in {"good", "blank"} -> [fs EXCEPT ![thumbnailFile] = [c |-> o, by |-> m]]
      [] o = "failpartial" -> [fs EXCEPT ![thumbnailFile] = [c |-> "partial", by |-> m]]
      [] o = "fail" -> fs

\* validateThumbnail on the local JPEG: os.Open fails on a missing file,
\* image.Decode on an incomplete one, and a solid-color frame is rejected
ValidateFile(fs, thumbnailFile) ==
    CASE fs[thumbnailFile].c = "none"    -> "open"
      [] fs[thumbnailFile].c = "partial" -> "decode"
      [] fs[thumbnailFile].c = "blank"   -> "solid"
      [] OTHER                           -> "ok"

\* what uploadFile can do: os.ReadFile fails on a missing file; the write to
\* the bucket may fail
UploadOutcomes(fs, src) ==
    IF fs[src].c = "none" THEN {"readfile"} ELSE {"write", "ok"}

uploadFile(b, fs, src, dst, o) ==
    IF o = "ok" THEN [b EXCEPT ![dst] = fs[src].c] ELSE b

\* bucket.Object(name).Delete(ctx): an error when the object is absent, and
\* possibly when it is there
DeleteOutcomes(b, name) ==
    IF b[name] = "none" THEN {"error"} ELSE {"error", "ok"}

DeleteObject(b, name, o) ==
    IF o = "ok" THEN [b EXCEPT ![name] = "none"] ELSE b

os_Remove(fs, path) == [fs EXCEPT ![path] = NoFile]

(***************************************************************************)
(* Service.ClearThumbnail                                                  *)
(***************************************************************************)

\* storage.NewClient(ctx)
ClearClient(m, thumbnailPath) ==
    /\ pc[m] = "idle"
    /\ op' = [op EXCEPT ![m] = "clear"]
    /\ arg' = [arg EXCEPT ![m] = thumbnailPath]
    /\ \E ok \in BOOLEAN :
        /\ mu' = [mu EXCEPT ![m] = Ran(m, "client", ok)]
        /\ IF ok THEN /\ pc' = [pc EXCEPT ![m] = "c_delete"]
                      /\ res' = res
           ELSE Failed(m, "client")
    /\ UNCHANGED <<fn, config, bucket0, bucket, scratch, cache, now, flushes, lastRet, rd>>

\* a delete whose error is dropped: the call goes on to flush
ClearDelete_ErrorDropped(m) ==
    /\ pc[m] = "c_delete"
    /\ \E o \in DeleteOutcomes(bucket, arg[m]) :
        /\ bucket' = DeleteObject(bucket, arg[m], o)
        /\ mu' = [mu EXCEPT ![m] = [Ran(m, "delete", o = "ok") EXCEPT !.dirty = (o = "ok")]]
    /\ pc' = [pc EXCEPT ![m] = "c_flush"]
    /\ UNCHANGED <<fn, config, bucket0, scratch, cache, now, flushes, lastRet, op, arg, res, rd>>

\* bucket.Object(thumbnailPath).Delete(ctx)
ClearDelete(m) ==
    /\ pc[m] = "c_delete"
    /\ \E o \in DeleteOutcomes(bucket, arg[m]) :
        /\ bucket' = DeleteObject(bucket, arg[m], o)
        /\ IF o = "ok"
           THEN /\ mu' = [mu EXCEPT ![m] = [Ran(m, "delete", TRUE) EXCEPT !.dirty = TRUE]]
                /\ pc' = [pc EXCEPT ![m] = "c_flush"]
                /\ res' = res
           ELSE /\ mu' = [mu EXCEPT ![m] = Ran(m, "delete", FALSE)]
                /\ Failed(m, "delete")
    /\ UNCHANGED <<fn, config, bucket0, scratch, cache, now, flushes, lastRet, op, arg, rd>>

\* s.videoCache.Flush(); return nil
ClearFlush(m) ==
    /\ pc[m] = "c_flush"
    /\ Flush
    /\ mu' = [mu EXCEPT ![m] = Flushed(m)]
    /\ res' = [res EXCEPT ![m] = "ok"]
    /\ pc' = [pc EXCEPT ![m] = "ret"]
    /\ UNCHANGED <<fn, config, bucket0, bucket, scratch, now, op, arg, rd>>

ClearThumbnail(m) ==
    \/ \E k \in {JpgA} : ClearClient(m, k)
    \/ ClearDelete(m)
    \/ ClearFlush(m)

(***************************************************************************)
(* Service.GenerateThumbnailWithProgress                                   *)
(***************************************************************************)

\* progressCb(step, progress): the handler writes the event {step, progress}
sendProgress(r, step, progress) ==
    [r EXCEPT !.events = Append(@, [step |-> step, progress |-> progress])]

\* the sendProgress calls with the upload announced at 75
GenProgress_UploadAt75 ==
    [checkFFmpeg |-> [step |-> "Checking FFmpeg", progress |-> 5],
     mkdir       |-> [step |-> "Setting up directories", progress |-> 10],
     client      |-> [step |-> "Connecting to storage", progress |-> 15],
     preclear    |-> [step |-> "Clearing old thumbnail", progress |-> 20],
     download    |-> [step |-> "Downloading video", progress |-> 30],
     extract     |-> [step |-> "Generating thumbnail", progress |-> 60],
     validate    |-> [step |-> "Validating thumbnail", progress |-> 80],
     upload      |-> [step |-> "Uploading thumbnail", progress |-> 75]]

\* the sendProgress call that comes before each step of the pipeline
GenProgress ==
    [checkFFmpeg |-> [step |-> "Checking FFmpeg", progress |-> 5],
     mkdir       |-> [step |-> "Setting up directories", progress |-> 10],
     client      |-> [step |-> "Connecting to storage", progress |-> 15],
     preclear    |-> [step |-> "Clearing old thumbnail", progress |-> 20],
     download    |-> [step |-> "Downloading video", progress |-> 30],
     extract     |-> [step |-> "Generating thumbnail", progress |-> 60],
     validate    |-> [step |-> "Validating thumbnail", progress |-> 80],
     upload      |-> [step |-> "Uploading thumbnail", progress |-> 85]]

\* sendProgress(...) and then the step s, which succeeded or not
GenRan(m, s, ok) ==
    sendProgress(Ran(m, s, ok), GenProgress[s].step, GenProgress[s].progress)

tmpVideoPath(videoPath) == getSafeFilename(videoPath)
tmpThumbnailPath(videoPath) == getSafeFilename(ThumbnailPath(videoPath))

\* sendProgress("Checking FFmpeg", 5); checkFFmpeg()
GenCheckFFmpeg(m, videoPath) ==
    /\ pc[m] = "idle"
    /\ op' = [op EXCEPT ![m] = "generate"]
    /\ arg' = [arg EXCEPT ![m] = videoPath]
    /\ \E ok \in BOOLEAN :
        /\ mu' = [mu EXCEPT ![m] = GenRan(m, "checkFFmpeg", ok)]
        /\ IF ok THEN /\ pc' = [pc EXCEPT ![m] = "g_mkdir"]
                      /\ res' = res
           ELSE Failed(m, "checkFFmpeg")
    /\ UNCHANGED <<fn, config, bucket0, bucket, scratch, cache, now, flushes, lastRet, rd>>

\* os.MkdirAll(outputDir, 0755)
GenMkdir(m) ==
    /\ pc[m] = "g_mkdir"
    /\ \E ok \in BOOLEAN :
        /\ mu' = [mu EXCEPT ![m] = GenRan(m, "mkdir", ok)]
        /\ IF ok THEN /\ pc' = [pc EXCEPT ![m] = "g_client"]
                      /\ res' = res
           ELSE Failed(m, "mkdir")
    /\ UNCHANGED <<fn, config, bucket0, bucket, scratch, cache, now, flushes, lastRet, op, arg, rd>>

\* storage.NewClient(ctx)
GenClient(m) ==
    /\ pc[m] = "g_client"
    /\ \E ok \in BOOLEAN :
        /\ mu' = [mu EXCEPT ![m] = GenRan(m, "client", ok)]
        /\ IF ok THEN /\ pc' = [pc EXCEPT ![m] = "g_preclear"]
                      /\ res' = res
           ELSE Failed(m, "client")
    /\ UNCHANGED <<fn, config, bucket0, bucket, scratch, cache, now, flushes, lastRet, op, arg, rd>>

\* the pre-clear with a failed delete returned as an error
GenPreClear_FatalDelete(m) ==
    /\ pc[m] = "g_preclear"
    /\ \E o \in DeleteOutcomes(bucket, ThumbnailPath(arg[m])) :
        /\ bucket' = DeleteObject(bucket, ThumbnailPath(arg[m]), o)
        /\ mu' = [mu EXCEPT ![m] =
                    [GenRan(m, "preclear", o = "ok") EXCEPT !.dirty = @ \/ o = "ok"]]
        /\ IF o = "ok" THEN /\ pc' = [pc EXCEPT ![m] = "g_download"]
                            /\ res' = res
           ELSE Failed(m, "preclear")
    /\ UNCHANGED <<fn, config, bucket0, scratch, cache, now, flushes, lastRet, op, arg, rd>>

\* bucket.Object(thumbnailPath).Delete(ctx), its error dropped
GenPreClear(m) ==
    /\ pc[m] = "g_preclear"
    /\ \E o \in DeleteOutcomes(bucket, ThumbnailPath(arg[m])) :
        /\ bucket' = DeleteObject(bucket, ThumbnailPath(arg[m]), o)
        /\ mu' = [mu EXCEPT ![m] =
                    [GenRan(m, "preclear", o = "ok") EXCEPT !.dirty = @ \/ o = "ok"]]
    /\ pc' = [pc EXCEPT ![m] = "g_download"]
    /\ UNCHANGED <<fn, config, bucket0, scratch, cache, now, flushes, lastRet, op, arg, res, rd>>

\* downloadFile(ctx, bucket, videoPath, tmpVideoPath); on success
\* defer os.Remove(tmpVideoPath)
GenDownload(m) ==
    /\ pc[m] = "g_download"
    /\ \E o \in DownloadOutcomes(bucket, arg[m]) :
        /\ scratch' = downloadFile(scratch, bucket, arg[m], tmpVideoPath(arg[m]), m, o)
        /\ IF o = "ok"
           THEN /\ mu' = [mu EXCEPT ![m] =
                            [GenRan(m, "download", TRUE) EXCEPT
                                !.defers = <<tmpVideoPath(arg[m])>> \o @]]
                /\ pc' = [pc EXCEPT ![m] = "g_extract"]
                /\ res' = res
           ELSE /\ mu' = [mu EXCEPT ![m] = GenRan(m, "download", FALSE)]
                /\ Failed(m, "download")
    /\ UNCHANGED <<fn, config, bucket0, bucket, cache, now, flushes, lastRet, op, arg, rd>>

\* createThumbnailWithFFmpeg(tmpVideoPath, tmpThumbnailPath, timeMs); on
\* success defer os.Remove(tmpThumbnailPath)
GenExtract(m) ==
    /\ pc[m] = "g_extract"
    /\ \E o \in FFmpegOutcomes(scratch, tmpVideoPath(arg[m])) :
        /\ scratch' = createThumbnailWithFFmpeg(scratch, tmpThumbnailPath(arg[m]), m, o)
        /\ IF o \in {"good", "blank"}
           THEN /\ mu' = [mu EXCEPT ![m] =
                            [GenRan(m, "extract", TRUE) EXCEPT
                                !.defers = <<tmpThumbnailPath(arg[m])>> \o @]]
                /\ pc' = [pc EXCEPT ![m] = "g_validate"]
                /\ res' = res
           ELSE /\ mu' = [mu EXCEPT ![m] = GenRan(m, "extract", FALSE)]
                /\ Failed(m, "extract")
    /\ UNCHANGED <<fn, config, bucket0, bucket, cache, now, flushes, lastRet, op, arg, rd>>

\* a validation whose verdict is dropped: the call goes on to upload
GenValidate_VerdictDropped(m) ==
    /\ pc[m] = "g_validate"
    /\ mu' = [mu EXCEPT ![m] =
                GenRan(m, "validate", ValidateFile(scratch, tmpThumbnailPath(arg[m])) = "ok")]
    /\ pc' = [pc EXCEPT ![m] = "g_upload"]
    /\ UNCHANGED <<fn, config, bucket0, bucket, scratch, cache, now, flushes, lastRet, op, arg, res, rd>>

\* validateThumbnail(tmpThumbnailPath)
GenValidate(m) ==
    /\ pc[m] = "g_validate"
    /\ IF ValidateFile(scratch, tmpThumbnailPath(arg[m])) = "ok"
       THEN /\ mu' = [mu EXCEPT ![m] = [GenRan(m, "validate", TRUE) EXCEPT !.validated = TRUE]]
            /\ pc' = [pc EXCEPT ![m] = "g_upload"]
            /\ res' = res
       ELSE /\ mu' = [mu EXCEPT ![m] = GenRan(m, "validate", FALSE)]
            /\ Failed(m, "validate")
    /\ UNCHANGED <<fn, config, bucket0, bucket, scratch, cache, now, flushes, lastRet, op, arg, rd>>

\* uploadFile(ctx, bucket, tmpThumbnailPath, thumbnailPath)
GenUpload(m) ==
    /\ pc[m] = "g_upload"
    /\ \E o \in UploadOutcomes(scratch, tmpThumbnailPath(arg[m])) :
        /\ bucket' = uploadFile(bucket, scratch, tmpThumbnailPath(arg[m]),
                                ThumbnailPath(arg[m]), o)
        /\ IF o = "ok"
           THEN /\ mu' = [mu EXCEPT ![m] =
                           [GenRan(m, "upload", TRUE) EXCEPT
                               !.dirty = TRUE,
                               !.wrote = @ \cup {scratch[tmpThumbnailPath(arg[m])].c}]]
                /\ pc' = [pc EXCEPT ![m] = "g_flush"]
                /\ res' = res
           ELSE /\ mu' = [mu EXCEPT ![m] = GenRan(m, "upload", FALSE)]
                /\ Failed(m, "upload")
    /\ UNCHANGED <<fn, config, bucket0, scratch, cache, now, flushes, lastRet, op, arg, rd>>

\* a success return that leaves the cache as it is
GenFlush_NoFlush(m) ==
    /\ pc[m] = "g_flush"
    /\ res' = [res EXCEPT ![m] = "ok"]
    /\ pc' = [pc EXCEPT ![m] = "ret"]
    /\ UNCHANGED <<fn, config, bucket0, bucket, scratch, cache, now, flushes, lastRet, op, arg, rd, mu>>

\* sendProgress("Clearing cache", 95); s.videoCache.Flush();
\* sendProgress("Complete", 100); return nil
GenFlush(m) ==
    /\ pc[m] = "g_flush"
    /\ Flush
    /\ mu' = [mu EXCEPT ![m] =
                sendProgress(sendProgress(Flushed(m), "Clearing cache", 95), "Complete", 100)]
    /\ res' = [res EXCEPT ![m] = "ok"]
    /\ pc' = [pc EXCEPT ![m] = "ret"]
    /\ UNCHANGED <<fn, config, bucket0, bucket, scratch, now, op, arg, rd>>

GenerateThumbnailWithProgress(m) ==
    \/ \E v \in {VidA, VidC} : GenCheckFFmpeg(m, v)
    \/ GenMkdir(m)
    \/ GenClient(m)
    \/ GenPreClear(m)
    \/ GenDownload(m)
    \/ GenExtract(m)
    \/ GenValidate(m)
    \/ GenUpload(m)
    \/ GenFlush(m)

(***************************************************************************)
(* Service.FetchMoviePoster                                                *)
(***************************************************************************)

\* the title cut at the first "(" only
cleanMovieTitle_ParenOnly(title) ==
    TrimSpace(IF Index(title, "(") # 0 THEN SubSeq(title, 1, Index(title, "(") - 1)
              ELSE title)

\* title[:strings.Index(title, "(")], then the same with "[", then TrimSpace
cleanMovieTitle(title) ==
    LET t1 == IF Index(title, "(") # 0 THEN SubSeq(title, 1, Index(title, "(") - 1) ELSE title
        t2 == IF Index(t1, "[") # 0 THEN SubSeq(t1, 1, Index(t1, "[") - 1) ELSE t1
    IN  TrimSpace(t2)

\* the first result that satisfies Match(movie), 0 if none
FirstIndex(results, Match(_)) ==
    IF \E i \in 1..Len(results) : Match(results[i])
    THEN CHOOSE i \in 1..Len(results) :
             /\ Match(results[i])
             /\ \A j \in 1..(i - 1) : ~Match(results[j])
    ELSE 0

\* the first result whose title contains the search title, else the first
findBestMatch_PartialFirst(results, searchTitle) ==
    LET Partial(movie) == Contains(ToLower(movie.Title), ToLower(searchTitle))
    IN  IF FirstIndex(results, Partial) # 0 THEN results[FirstIndex(results, Partial)]
        ELSE results[1]

\* findBestMatch(results, searchTitle), of a list that is not empty: the
\* loop for an exact match, the loop for a partial match, results[0]
findBestMatch(results, searchTitle) ==
    LET searchLower == ToLower(searchTitle)
        Exact(movie) == ToLower(movie.Title) = searchLower
        Partial(movie) == Contains(ToLower(movie.Title), searchLower)
    IN  IF FirstIndex(results, Exact) # 0 THEN results[FirstIndex(results, Exact)]
        ELSE IF FirstIndex(results, Partial) # 0 THEN results[FirstIndex(results, Partial)]
        ELSE results[1]

\* no movie
NoMovie == [Title |-> <<>>, PosterPath |-> [nil |-> TRUE, s |-> <<>>]]

\* FetchMoviePoster from os.Getenv("TMDB_API_KEY") to the check of
\* movie.PosterPath.  reply is what http.Get(searchURL) and the decoder give:
\* [kind, results] with kind "ok" or the failure.  The value tells the error
\* returned ("found" if none), the query sent to the search ("unsent" if
\* none), the list findBestMatch was called on and the movie it returned
PosterSearch(apiKey, movieTitle, reply) ==
    LET cleanTitle == cleanMovieTitle(movieTitle)
        unsent == [err |-> "apikey", sent |-> FALSE, query |-> <<>>,
                   matched |-> FALSE, from |-> <<>>, movie |-> NoMovie]
        sent == [unsent EXCEPT !.sent = TRUE, !.query = cleanTitle]
    IN  IF apiKey = <<>> THEN unsent
        ELSE IF reply.kind # "ok" THEN [sent EXCEPT !.err = "search"]
        ELSE IF Len(reply.results) = 0 THEN [sent EXCEPT !.err = "noresults"]
        ELSE LET movie == findBestMatch(reply.results, cleanTitle)
                 found == [sent EXCEPT !.matched = TRUE, !.from = reply.results,
                                       !.movie = movie]
             IN  IF movie.PosterPath.nil \/ movie.PosterPath.s = <<>>
                 THEN [found EXCEPT !.err = "noposter"]
                 ELSE [found EXCEPT !.err = "found"]

\* the inputs of a poster search: the key, the titles, the replies
ApiKeys == {<<>>, <<"k">>}
MovieTitles ==
    { <<"U", "p">>, <<"u", "p">>, <<" ", "U", "p", " ">>,
      <<"U", "p", " ", "(", "0", "9", ")", " ", "[", "H", "D", "]">>,
      <<"U", "p", " ", "[", "H", "D", "]", " ", "(", "0", "9", ")">>,
      <<"(", "0", "9", ")">>,
      <<"I", "n", "c", "e", "p", "t", "i", "o", "n", " ", "(", "2", "0", "1", "0", ")", " ",
        "[", "1", "0", "8", "0", "p", "]">> }
PosterPaths ==
    { [nil |-> TRUE, s |-> <<>>], [nil |-> FALSE, s |-> <<>>],
      [nil |-> FALSE, s |-> <<"/", "p">>] }
Movies ==
    [Title : { <<"U", "p">>, <<"U", "P">>, <<"S", "u", "p">>, <<"A", "n", "t">> },
     PosterPath : PosterPaths]
\* the longest list of results in a reply of the model
MaxResults == 2
SearchReplies ==
    {[kind |-> k, results |-> <<>>] : k \in {"neterr", "status", "decode"}}
        \cup {[kind |-> "ok", results |-> r] :
                r \in UNION {[1..n -> Movies] : n \in 0..MaxResults}}

\* the steps before the scratch file is created, none of which touches the
\* bucket, the scratch directory or the cache: the API key, the search, the
\* result list, the poster path of the match, the poster download, MkdirAll
PosterLookupFailures ==
    {"apikey", "search", "noresults", "noposter", "posterdownload", "mkdir"}

\* how the steps end, over the inputs of the model: the error of the
\* search, or else of http.Get(posterURL) and os.MkdirAll
PosterLookupOutcomes ==
    UNION { LET o1 == PosterSearch(apiKey, movieTitle, reply).err
            IN  IF o1 = "found" THEN {"posterdownload", "mkdir", "ok"} ELSE {o1} :
            apiKey \in ApiKeys, movieTitle \in MovieTitles, reply \in SearchReplies }

\* the lookup with the old thumbnail deleted before the search
PosterLookup_ClearsFirst(m, videoPath) ==
    /\ pc[m] = "idle"
    /\ op' = [op EXCEPT ![m] = "poster"]
    /\ arg' = [arg EXCEPT ![m] = videoPath]
    /\ bucket' = DeleteObject(bucket, ThumbnailPath(videoPath), "ok")
    /\ \E o \in PosterLookupOutcomes :
        IF o = "ok"
        THEN /\ mu' = [mu EXCEPT ![m] = [Ran(m, "lookup", TRUE) EXCEPT !.dirty = TRUE]]
             /\ pc' = [pc EXCEPT ![m] = "p_create"]
             /\ res' = res
        ELSE /\ mu' = [mu EXCEPT ![m] = [Ran(m, o, FALSE) EXCEPT !.dirty = TRUE]]
             /\ Failed(m, o)
    /\ UNCHANGED <<fn, config, bucket0, scratch, cache, now, flushes, lastRet, rd>>

PosterLookup(m, videoPath) ==
    /\ pc[m] = "idle"
    /\ op' = [op EXCEPT ![m] = "poster"]
    /\ arg' = [arg EXCEPT ![m] = videoPath]
    /\ \E o \in PosterLookupOutcomes :
        IF o = "ok"
        THEN /\ mu' = [mu EXCEPT ![m] = Ran(m, "lookup", TRUE)]
             /\ pc' = [pc EXCEPT ![m] = "p_create"]
             /\ res' = res
        ELSE /\ mu' = [mu EXCEPT ![m] = Ran(m, o, FALSE)]
             /\ Failed(m, o)
    /\ UNCHANGED <<fn, config, bucket0, bucket, scratch, cache, now, flushes, lastRet, rd>>

\* os.Create(cleanTmpPath); defer os.Remove(cleanTmpPath)
PosterCreate(m) ==
    /\ pc[m] = "p_create"
    /\ \E ok \in BOOLEAN :
        IF ok
        THEN /\ scratch' = [scratch EXCEPT ![tmpThumbnailPath(arg[m])] =
                                [c |-> "partial", by |-> m]]
             /\ mu' = [mu EXCEPT ![m] =
                        [Ran(m, "create", TRUE) EXCEPT
                            !.defers = <<tmpThumbnailPath(arg[m])>> \o @]]
             /\ pc' = [pc EXCEPT ![m] = "p_copy"]
             /\ res' = res
        ELSE /\ scratch' = scratch
             /\ mu' = [mu EXCEPT ![m] = Ran(m, "create", FALSE)]
             /\ Failed(m, "create")
    /\ UNCHANGED <<fn, config, bucket0, bucket, cache, now, flushes, lastRet, op, arg, rd>>

\* io.Copy(tmpFile, posterResp.Body), then storage.NewClient(ctx)
PosterCopy(m) ==
    /\ pc[m] = "p_copy"
    /\ \E o \in {"copy", "client", "ok"} :
        /\ scratch' = IF o = "copy" THEN scratch
                      ELSE [scratch EXCEPT ![tmpThumbnailPath(arg[m])] =
                                [c |-> "poster", by |-> m]]
        /\ IF o = "ok"
           THEN /\ mu' = [mu EXCEPT ![m] = Ran(m, "copy", TRUE)]
                /\ pc' = [pc EXCEPT ![m] = "p_preclear"]
                /\ res' = res
           ELSE /\ mu' = [mu EXCEPT ![m] = Ran(m, o, FALSE)]
                /\ Failed(m, o)
    /\ UNCHANGED <<fn, config, bucket0, bucket, cache, now, flushes, lastRet, op, arg, rd>>

\* bucket.Object(thumbnailPath).Delete(ctx), its error dropped
PosterPreClear(m) ==
    /\ pc[m] = "p_preclear"
    /\ \E o \in DeleteOutcomes(bucket, ThumbnailPath(arg[m])) :
        /\ bucket' = DeleteObject(bucket, ThumbnailPath(arg[m]), o)
        /\ mu' = [mu EXCEPT ![m] =
                    [Ran(m, "preclear", o = "ok") EXCEPT !.dirty = @ \/ o = "ok"]]
    /\ pc' = [pc EXCEPT ![m] = "p_upload"]
    /\ UNCHANGED <<fn, config, bucket0, scratch, cache, now, flushes, lastRet, op, arg, res, rd>>

\* uploadFile(ctx, bucket, cleanTmpPath, thumbnailPath)
PosterUpload(m) ==
    /\ pc[m] = "p_upload"
    /\ \E o \in UploadOutcomes(scratch, tmpThumbnailPath(arg[m])) :
        /\ bucket' = uploadFile(bucket, scratch, tmpThumbnailPath(arg[m]),
                                ThumbnailPath(arg[m]), o)
        /\ IF o = "ok"
           THEN /\ mu' = [mu EXCEPT ![m] = [Ran(m, "upload", TRUE) EXCEPT !.dirty = TRUE]]
                /\ pc' = [pc EXCEPT ![m] = "p_flush"]
                /\ res' = res
           ELSE /\ mu' = [mu EXCEPT ![m] = Ran(m, "upload", FALSE)]
                /\ Failed(m, "upload")
    /\ UNCHANGED <<fn, config, bucket0, scratch, cache, now, flushes, lastRet, op, arg, rd>>

\* s.videoCache.Flush(); return nil
PosterFlush(m) ==
    /\ pc[m] = "p_flush"
    /\ Flush
    /\ mu' = [mu EXCEPT ![m] = Flushed(m)]
    /\ res' = [res EXCEPT ![m] = "ok"]
    /\ pc' = [pc EXCEPT ![m] = "ret"]
    /\ UNCHANGED <<fn, config, bucket0, bucket, scratch, now, op, arg, rd>>

FetchMoviePoster(m) ==
    \/ \E v \in {VidA} : PosterLookup(m, v)
    \/ PosterCreate(m)
    \/ PosterCopy(m)
    \/ PosterPreClear(m)
    \/ PosterUpload(m)
    \/ PosterFlush(m)

(***************************************************************************)
(* Service.BulkGenerateThumbnails                                          *)
(***************************************************************************)

\* a thumbnail map keyed by the image's whole name, extension included
ThumbnailsMap_KeyedByName(listing) ==
    {listing[i] : i \in {j \in 1..Len(listing) :
                            Participates(listing[j]) /\ isImage(listing[j])}}

\* thumbnailsMap after the first pass over the listing
ThumbnailsMap(listing) ==
    { BasePath(listing[i]) :
        i \in {j \in 1..Len(listing) : Participates(listing[j]) /\ isImage(listing[j])} }

\* the second pass reaches "if thumbnailNeeded" with a true condition
ThumbnailNeeded(name, thumbnailsMap, force) ==
    /\ Participates(name)
    /\ isVideo(name)
    /\ (BasePath(name) \notin thumbnailsMap \/ force)

\* the index of the next listed object after i the pipeline runs for, 0 if none
NextNeeded(listing, i, thumbnailsMap, force) ==
    LET later == {j \in (i + 1)..Len(listing) :
                    ThumbnailNeeded(listing[j], thumbnailsMap, force)}
    IN  IF later = {} THEN 0 ELSE CHOOSE j \in later : \A k \in later : j <= k

\* checkFFmpeg(); os.MkdirAll; storage.NewClient: each failure returns 0, 0, err
BulkGenSetup(m, force) ==
    /\ pc[m] = "idle"
    /\ op' = [op EXCEPT ![m] = "bulkgen"]
    /\ arg' = [arg EXCEPT ![m] = force]
    /\ \E o \in {"checkFFmpeg", "mkdir", "client", "ok"} :
        IF o = "ok"
        THEN /\ mu' = [mu EXCEPT ![m] = Ran(m, "setup", TRUE)]
             /\ pc' = [pc EXCEPT ![m] = "b_pass1"]
             /\ res' = res
        ELSE /\ mu' = [mu EXCEPT ![m] = Ran(m, o, FALSE)]
             /\ Failed(m, o)
    /\ UNCHANGED <<fn, config, bucket0, bucket, scratch, cache, now, flushes, lastRet, rd>>

\* first pass: find all thumbnails; an iterator error returns 0, 0, err
BulkGenPass1(m) ==
    /\ pc[m] = "b_pass1"
    /\ \E ok \in BOOLEAN :
        IF ok
        THEN /\ mu' = [mu EXCEPT ![m] =
                        [Ran(m, "pass1", TRUE) EXCEPT
                            !.list1 = Listing(bucket),
                            !.thumbs = ThumbnailsMap(Listing(bucket))]]
             /\ pc' = [pc EXCEPT ![m] = "b_pass2"]
             /\ res' = res
        ELSE /\ mu' = [mu EXCEPT ![m] = Ran(m, "list", FALSE)]
             /\ Failed(m, "list")
    /\ UNCHANGED <<fn, config, bucket0, bucket, scratch, cache, now, flushes, lastRet, op, arg, rd>>

\* it = bucket.Objects(ctx, nil): the listing of the second pass
BulkGenPass2(m) ==
    /\ pc[m] = "b_pass2"
    /\ mu' = [mu EXCEPT ![m] = [Ran(m, "pass2", TRUE) EXCEPT !.listing = Listing(bucket),
                                                      !.idx = 0]]
    /\ pc' = [pc EXCEPT ![m] = "b_next"]
    /\ UNCHANGED <<fn, config, bucket0, bucket, scratch, cache, now, flushes, lastRet, op, arg, res, rd>>

\* it.Next() up to the next video that needs a thumbnail, then
\* downloadFile(ctx, bucket, videoPath, tmpVideoPath).  An iterator error
\* returns totalProcessed, totalErrors, err; iterator.Done leaves the loop;
\* a failed download counts an error and continues with the next object
BulkGenDownload(m) ==
    /\ pc[m] = "b_next"
    /\ LET j == NextNeeded(mu[m].listing, mu[m].idx, mu[m].thumbs, arg[m])
       IN  \/ /\ mu' = [mu EXCEPT ![m] = Ran(m, "list", FALSE)]
              /\ Failed(m, "list")
              /\ scratch' = scratch
           \/ /\ j = 0
              /\ mu' = mu
              /\ pc' = [pc EXCEPT ![m] = "b_flush"]
              /\ res' = res
              /\ scratch' = scratch
           \/ /\ j # 0
              /\ LET videoPath == mu[m].listing[j]
                 IN  \E o \in DownloadOutcomes(bucket, videoPath) :
                        LET r == [Ran(m, "download", o = "ok") EXCEPT
                                    !.idx = j, !.cur = videoPath,
                                    !.selected = @ \cup {videoPath}]
                        IN  /\ scratch' = downloadFile(scratch, bucket, videoPath,
                                                       tmpVideoPath(videoPath), m, o)
                            /\ IF o = "ok"
                               THEN /\ mu' = [mu EXCEPT ![m] = r]
                                    /\ pc' = [pc EXCEPT ![m] = "b_extract"]
                               ELSE /\ mu' = [mu EXCEPT ![m] =
                                                [r EXCEPT !.errors = @ + 1]]
                                    /\ pc' = pc
              /\ res' = res
    /\ UNCHANGED <<fn, config, bucket0, bucket, cache, now, flushes, lastRet, op, arg, rd>>

\* createThumbnailWithFFmpeg; on failure os.Remove(tmpVideoPath), totalErrors++
BulkGenExtract(m) ==
    /\ pc[m] = "b_extract"
    /\ \E o \in FFmpegOutcomes(scratch, tmpVideoPath(mu[m].cur)) :
        LET fs == createThumbnailWithFFmpeg(scratch, tmpThumbnailPath(mu[m].cur), m, o)
        IN  IF o \in {"good", "blank"}
            THEN /\ scratch' = fs
                 /\ mu' = [mu EXCEPT ![m] = Ran(m, "extract", TRUE)]
                 /\ pc' = [pc EXCEPT ![m] = "b_validate"]
            ELSE /\ scratch' = os_Remove(fs, tmpVideoPath(mu[m].cur))
                 /\ mu' = [mu EXCEPT ![m] = [Ran(m, "extract", FALSE) EXCEPT !.errors = @ + 1]]
                 /\ pc' = [pc EXCEPT ![m] = "b_next"]
    /\ UNCHANGED <<fn, config, bucket0, bucket, cache, now, flushes, lastRet, op, arg, res, rd>>

\* the two os.Remove calls that end an item after the frame was written
RemoveBoth(fs, videoPath) ==
    os_Remove(os_Remove(fs, tmpVideoPath(videoPath)), tmpThumbnailPath(videoPath))

\* a validation failure that skips the video without counting an error
BulkGenValidate_ErrorNotCounted(m) ==
    /\ pc[m] = "b_validate"
    /\ IF ValidateFile(scratch, tmpThumbnailPath(mu[m].cur)) = "ok"
       THEN /\ scratch' = scratch
            /\ mu' = [mu EXCEPT ![m] = [Ran(m, "validate", TRUE) EXCEPT !.validated = TRUE]]
            /\ pc' = [pc EXCEPT ![m] = "b_upload"]
       ELSE /\ scratch' = RemoveBoth(scratch, mu[m].cur)
            /\ mu' = [mu EXCEPT ![m] = Ran(m, "validate", FALSE)]
            /\ pc' = [pc EXCEPT ![m] = "b_next"]
    /\ UNCHANGED <<fn, config, bucket0, bucket, cache, now, flushes, lastRet, op, arg, res, rd>>

\* validateThumbnail; on failure both files are removed, totalErrors++
BulkGenValidate(m) ==
    /\ pc[m] = "b_validate"
    /\ IF ValidateFile(scratch, tmpThumbnailPath(mu[m].cur)) = "ok"
       THEN /\ scratch' = scratch
            /\ mu' = [mu EXCEPT ![m] = [Ran(m, "validate", TRUE) EXCEPT !.validated = TRUE]]
            /\ pc' = [pc EXCEPT ![m] = "b_upload"]
       ELSE /\ scratch' = RemoveBoth(scratch, mu[m].cur)
            /\ mu' = [mu EXCEPT ![m] = [Ran(m, "validate", FALSE) EXCEPT !.errors = @ + 1]]
            /\ pc' = [pc EXCEPT ![m] = "b_next"]
    /\ UNCHANGED <<fn, config, bucket0, bucket, cache, now, flushes, lastRet, op, arg, res, rd>>

\* an upload whose count is lost when another item was already counted
BulkGenUpload_LostUpdate(m) ==
    /\ pc[m] = "b_upload"
    /\ \E o \in UploadOutcomes(scratch, tmpThumbnailPath(mu[m].cur)) :
        /\ bucket' = uploadFile(bucket, scratch, tmpThumbnailPath(mu[m].cur),
                                ThumbnailPath(mu[m].cur), o)
        /\ mu' = [mu EXCEPT ![m] =
                    IF o = "ok"
                    THEN [Ran(m, "upload", TRUE) EXCEPT
                              !.processed = IF mu[m].errors > 0 THEN @ ELSE @ + 1,
                              !.dirty = TRUE, !.validated = FALSE,
                              !.wrote = @ \cup {scratch[tmpThumbnailPath(mu[m].cur)].c}]
                    ELSE [Ran(m, "upload", FALSE) EXCEPT !.errors = @ + 1,
                                                  !.validated = FALSE]]
    /\ scratch' = RemoveBoth(scratch, mu[m].cur)
    /\ pc' = [pc EXCEPT ![m] = "b_next"]
    /\ UNCHANGED <<fn, config, bucket0, cache, now, flushes, lastRet, op, arg, res, rd>>

\* uploadFile; on failure totalErrors++, on success totalProcessed++; both
\* files are removed either way
BulkGenUpload(m) ==
    /\ pc[m] = "b_upload"
    /\ \E o \in UploadOutcomes(scratch, tmpThumbnailPath(mu[m].cur)) :
        /\ bucket' = uploadFile(bucket, scratch, tmpThumbnailPath(mu[m].cur),
                                ThumbnailPath(mu[m].cur), o)
        /\ mu' = [mu EXCEPT ![m] =
                    IF o = "ok"
                    THEN [Ran(m, "upload", TRUE) EXCEPT
                              !.processed = @ + 1, !.dirty = TRUE, !.validated = FALSE,
                              !.wrote = @ \cup {scratch[tmpThumbnailPath(mu[m].cur)].c}]
                    ELSE [Ran(m, "upload", FALSE) EXCEPT !.errors = @ + 1,
                                                  !.validated = FALSE]]
    /\ scratch' = RemoveBoth(scratch, mu[m].cur)
    /\ pc' = [pc EXCEPT ![m] = "b_next"]
    /\ UNCHANGED <<fn, config, bucket0, cache, now, flushes, lastRet, op, arg, res, rd>>

\* s.videoCache.Flush(); return totalProcessed, totalErrors, nil
BulkGenFlush(m) ==
    /\ pc[m] = "b_flush"
    /\ Flush
    /\ mu' = [mu EXCEPT ![m] = Flushed(m)]
    /\ res' = [res EXCEPT ![m] = "ok"]
    /\ pc' = [pc EXCEPT ![m] = "ret"]
    /\ UNCHANGED <<fn, config, bucket0, bucket, scratch, now, op, arg, rd>>

BulkGenerateThumbnails(m) ==
    \/ \E force \in BOOLEAN : BulkGenSetup(m, force)
    \/ BulkGenPass1(m)
    \/ BulkGenPass2(m)
    \/ BulkGenDownload(m)
    \/ BulkGenExtract(m)
    \/ BulkGenValidate(m)
    \/ BulkGenUpload(m)
    \/ BulkGenFlush(m)

(***************************************************************************)
(* Service.BulkClearThumbnails                                             *)
(***************************************************************************)

\* an image test that forgets the three-segment rule
IsThumbnail_AnyDepth(name) == isImage(name)

\* the loop reaches "if isImage" with a true condition
IsThumbnail(name) == Participates(name) /\ isImage(name)

\* the index of the next listed image after i, 0 if none
NextImage(listing, i) ==
    LET later == {j \in (i + 1)..Len(listing) : IsThumbnail(listing[j])}
    IN  IF later = {} THEN 0 ELSE CHOOSE j \in later : \A k \in later : j <= k

\* storage.NewClient(ctx); it := bucket.Objects(ctx, nil)
BulkClearClient(m) ==
    /\ pc[m] = "idle"
    /\ op' = [op EXCEPT ![m] = "bulkclear"]
    /\ \E ok \in BOOLEAN :
        IF ok
        THEN /\ mu' = [mu EXCEPT ![m] = [Ran(m, "client", TRUE) EXCEPT
                                            !.listing = Listing(bucket), !.idx = 0]]
             /\ pc' = [pc EXCEPT ![m] = "k_next"]
             /\ res' = res
        ELSE /\ mu' = [mu EXCEPT ![m] = Ran(m, "client", FALSE)]
             /\ Failed(m, "client")
    /\ UNCHANGED <<fn, config, bucket0, bucket, scratch, cache, now, flushes, lastRet, arg, rd>>

\* it.Next() up to the next image, then bucket.Object(obj.Name).Delete(ctx).
\* An iterator error returns totalDeleted, err; iterator.Done leaves the loop;
\* a failed delete is logged and the loop continues
BulkClearDelete(m) ==
    /\ pc[m] = "k_next"
    /\ LET j == NextImage(mu[m].listing, mu[m].idx)
       IN  \/ /\ mu' = [mu EXCEPT ![m] = Ran(m, "list", FALSE)]
              /\ Failed(m, "list")
              /\ bucket' = bucket
           \/ /\ j = 0
              /\ mu' = mu
              /\ pc' = [pc EXCEPT ![m] = "k_flush"]
              /\ res' = res
              /\ bucket' = bucket
           \/ /\ j # 0
              /\ \E o \in DeleteOutcomes(bucket, mu[m].listing[j]) :
                    /\ bucket' = DeleteObject(bucket, mu[m].listing[j], o)
                    /\ mu' = [mu EXCEPT ![m] =
                                [Ran(m, "delete", o = "ok") EXCEPT
                                    !.idx = j,
                                    !.selected = @ \cup {mu[m].listing[j]},
                                    !.deleted = IF o = "ok" THEN @ + 1 ELSE @,
                                    !.dirty = @ \/ o = "ok"]]
              /\ pc' = pc
              /\ res' = res
    /\ UNCHANGED <<fn, config, bucket0, scratch, cache, now, flushes, lastRet, op, arg, rd>>

\* s.videoCache.Flush(); return totalDeleted, nil
BulkClearFlush(m) ==
    /\ pc[m] = "k_flush"
    /\ Flush
    /\ mu' = [mu EXCEPT ![m] = Flushed(m)]
    /\ res' = [res EXCEPT ![m] = "ok"]
    /\ pc' = [pc EXCEPT ![m] = "ret"]
    /\ UNCHANGED <<fn, config, bucket0, bucket, scratch, now, op, arg, rd>>

BulkClearThumbnails(m) ==
    \/ BulkClearClient(m)
    \/ BulkClearDelete(m)
    \/ BulkClearFlush(m)

(***************************************************************************)
(* naturalLess                                                             *)
(***************************************************************************)

IsDigit(ch) == PosIn(Digits, ch) > 0
IsSpace(ch) == ch = " "

\* the first index from i on that holds no space, Len(s) + 1 if none
RECURSIVE SkipSpaces(_, _)
SkipSpaces(s, i) ==
    IF i <= Len(s) /\ IsSpace(s[i]) THEN SkipSpaces(s, i + 1) ELSE i

\* the first index from i on that holds no digit, Len(s) + 1 if none
RECURSIVE DigitsEnd(_, _)
DigitsEnd(s, i) ==
    IF i <= Len(s) /\ IsDigit(s[i]) THEN DigitsEnd(s, i + 1) ELSE i

\* an int as its decimal digits without leading zeros; the largest int
MaxInt ==
    <<"9", "2", "2", "3", "3", "7", "2", "0", "3", "6", "8", "5", "4", "7", "7",
      "5", "8", "0", "7">>

RECURSIVE StripZeros(_)
StripZeros(d) ==
    IF Len(d) > 1 /\ d[1] = "0" THEN StripZeros(Tail(d)) ELSE d

\* n1 < n2 on ints
IntLess(n1, n2) ==
    \/ Len(n1) < Len(n2)
    \/ /\ Len(n1) = Len(n2)
       /\ \E i \in 1..Len(n1) :
             /\ SubSeq(n1, 1, i - 1) = SubSeq(n2, 1, i - 1)
             /\ PosIn(Digits, n1[i]) < PosIn(Digits, n2[i])

\* strconv.Atoi of a run of digits, the error dropped: the value, or the
\* largest int when the value is out of range
Atoi(d) ==
    LET value == StripZeros(d)
    IN  IF IntLess(MaxInt, value) THEN MaxInt ELSE value

\* the loop of naturalLess from positions i and j (counted from 1)
RECURSIVE NaturalLoop(_, _, _, _)
NaturalLoop(s1, s2, i, j) ==
    IF ~(i <= Len(s1) /\ j <= Len(s2)) THEN Len(s1) < Len(s2)
    ELSE LET i1 == SkipSpaces(s1, i)
             j1 == SkipSpaces(s2, j)
         IN  IF i1 > Len(s1) \/ j1 > Len(s2) THEN Len(s1) < Len(s2)
             ELSE IF IsDigit(s1[i1]) /\ IsDigit(s2[j1])
             THEN LET e1 == DigitsEnd(s1, i1)
                      e2 == DigitsEnd(s2, j1)
                      n1 == Atoi(SubSeq(s1, i1, e1 - 1))
                      n2 == Atoi(SubSeq(s2, j1, e2 - 1))
                  IN  IF n1 # n2 THEN IntLess(n1, n2) ELSE NaturalLoop(s1, s2, e1, e2)
             ELSE IF s1[i1] # s2[j1] THEN ByteOf(s1[i1]) < ByteOf(s2[j1])
             ELSE NaturalLoop(s1, s2, i1 + 1, j1 + 1)

naturalLess(s1, s2) == NaturalLoop(s1, s2, 1, 1)

\* all orders of the elements of a finite set
Perms(S) ==
    {p \in [1..Cardinality(S) -> S] : \A x \in S : \E i \in DOMAIN p : p[i] = x}

\* sort.Slice(records, less on Name) over a slice holding the records of S
\* in some order: an order of S in which no record comes before one that
\* is less than it
SortSlice(S) ==
    {p \in Perms(S) :
        \A i, j \in DOMAIN p : i < j => ~naturalLess(p[j].Name, p[i].Name)}

(***************************************************************************)
(* The catalog: GetVideosInternal, GetGalleriesInternal,                   *)
(* GetCategoriesInternal                                                   *)
(***************************************************************************)

IsAlnum(ch) == IsDigit(ch) \/ PosIn(Lower, ch) > 0 \/ PosIn(Upper, ch) > 0

\* the index of the last dot of s, 0 when there is none
RECURSIVE LastDot(_, _)
LastDot(s, i) ==
    IF i < 1 THEN 0 ELSE IF s[i] = "." THEN i ELSE LastDot(s, i - 1)

\* extensionRegex.ReplaceAllString(filename, "") for `\.[a-zA-Z0-9]+$`: a
\* final dot followed by letters and digits only, and at least one, is cut
ReplaceExtension(filename) ==
    LET d == LastDot(filename, Len(filename))
    IN  IF /\ d > 0
           /\ d < Len(filename)
           /\ \A i \in (d + 1)..Len(filename) : IsAlnum(filename[i])
        THEN SubSeq(filename, 1, d - 1)
        ELSE filename

\* bucket.SignedURL(file.Name, ...): a URL that names the object
SignedURL(name) == <<"https://signed/">> \o name

\* models.Video{Name, Category, Gallery}: Url and VideoPath are "", Thumbnail
\* is nil and ThumbnailPath is ""
NewVideo(fileBase, category, gallery) ==
    [Name |-> fileBase, Category |-> category, Gallery |-> gallery,
     Url |-> <<>>, VideoPath |-> <<>>, Thumbnail |-> <<>>, ThumbnailPath |-> <<>>]

\* one round of the loop of GetVideosInternal for the object name: videosMap
\* after it.  signed tells whether bucket.SignedURL succeeded
ProcessObject(videosMap, name, signed) ==
    LET parts == Split(name)
    IN  IF Len(parts) # 3 \/ parts[3] = <<>> THEN videosMap
        ELSE IF ~signed THEN videosMap
        ELSE
          LET filename == parts[3]
              fileBase == ReplaceExtension(filename)
              v0 == IF fileBase \in DOMAIN videosMap
                    THEN videosMap[fileBase]
                    ELSE NewVideo(fileBase, parts[1], parts[2])
              v1 == IF \E ext \in videoExtensions : HasSuffix(filename, ext)
                    THEN [v0 EXCEPT !.Url = SignedURL(name), !.VideoPath = name]
                    ELSE v0
              v2 == IF \E ext \in imageExtensions : HasSuffix(filename, ext)
                    THEN [v1 EXCEPT !.Thumbnail = SignedURL(name),
                                    !.ThumbnailPath = name]
                    ELSE v1
          IN  [k \in DOMAIN videosMap \cup {fileBase} |->
                  IF k = fileBase THEN v2 ELSE videosMap[k]]

\* the values of a map
MapValues(map) == {map[k] : k \in DOMAIN map}

Base64UrlAlphabet == Upper \o Lower \o Digits \o <<"-", "_">>

\* the first three bytes of sha256(bytes), as a number: a fixed function of
\* the bytes (a polynomial hash stands for the digest)
RECURSIVE Sha256Head(_)
Sha256Head(bytes) ==
    IF bytes = <<>> THEN 7
    ELSE (31 * Sha256Head(SubSeq(bytes, 1, Len(bytes) - 1))
            + ByteOf(bytes[Len(bytes)])) % (64 ^ 4)

\* base64.URLEncoding.EncodeToString(sum)[0:4]: the first three bytes of the
\* sum in four characters of six bits each
Base64UrlHead(n) ==
    [i \in 1..4 |-> Base64UrlAlphabet[((n \div (64 ^ (4 - i))) % 64) + 1]]

\* fmt.Sprintf("/gallery/%s", hashStr) for hash.Write(galleryName + SecretKey)
GalleryStub(galleryName, secretKey) ==
    <<"/", "g", "a", "l", "l", "e", "r", "y", "/">>
        \o Base64UrlHead(Sha256Head(galleryName \o secretKey))

\* GetGalleriesInternal with the stub hashed from the first video's name
RECURSIVE GalleryMap_StubFromVideo(_, _, _)
GalleryMap_StubFromVideo(videos, n, secretKey) ==
    IF n = 0 THEN << >>
    ELSE LET gm == GalleryMap_StubFromVideo(videos, n - 1, secretKey)
             video == videos[n]
             name == video.Gallery
             g == IF name \in DOMAIN gm
                  THEN [gm[name] EXCEPT !.Videos = Append(@, video)]
                  ELSE [Name |-> name, Category |-> video.Category,
                        Stub |-> GalleryStub(video.Name, secretKey),
                        Videos |-> <<video>>]
         IN  [k \in DOMAIN gm \cup {name} |-> IF k = name THEN g ELSE gm[k]]

\* galleryMap after the loop of GetGalleriesInternal over videos[1..n]
RECURSIVE GalleryMap(_, _, _)
GalleryMap(videos, n, secretKey) ==
    IF n = 0 THEN << >>
    ELSE LET gm == GalleryMap(videos, n - 1, secretKey)
             video == videos[n]
             name == video.Gallery
             g == IF name \in DOMAIN gm
                  THEN [gm[name] EXCEPT !.Videos = Append(@, video)]
                  ELSE [Name |-> name, Category |-> video.Category,
                        Stub |-> GalleryStub(name, secretKey),
                        Videos |-> <<video>>]
         IN  [k \in DOMAIN gm \cup {name} |-> IF k = name THEN g ELSE gm[k]]

\* categoryMap after the loop of GetCategoriesInternal over galleries[1..n]
RECURSIVE CategoryMap(_, _)
CategoryMap(galleries, n) ==
    IF n = 0 THEN << >>
    ELSE LET cm == CategoryMap(galleries, n - 1)
             gallery == galleries[n]
             name == gallery.Category
             c == IF name \in DOMAIN cm
                  THEN [cm[name] EXCEPT !.Galleries = Append(@, gallery)]
                  ELSE [Name |-> name, Stub |-> name, Galleries |-> <<gallery>>]
         IN  [k \in DOMAIN cm \cup {name} |-> IF k = name THEN c ELSE cm[k]]

(***************************************************************************)
(* A page request: GetCategories over a bucket that nothing changes        *)
(***************************************************************************)

CkDir  == <<"a", "/", "g", "1", "0", "/">>
CkTxt  == <<"a", "/", "g", "2", "/", "n", ".", "t", "x", "t">>
CkDeep == <<"a", "/", "g", "1", "0", "/", "s", "/", "v", "3", ".", "m", "p", "4">>
CkV10  == <<"a", "/", "g", "1", "0", "/", "v", "1", "0", ".", "m", "p", "4">>
CkV2J  == <<"a", "/", "g", "1", "0", "/", "v", "2", ".", "j", "p", "g">>
CkV2   == <<"a", "/", "g", "1", "0", "/", "v", "2", ".", "m", "p", "4">>
\* two names with numbers beyond the range of int
CkBig1 ==
    <<"a", "/", "g", "1", "0", "/", "v", "1", "0", "0", "0", "0", "0", "0", "0", "0", "0",
      "0", "0", "0", "0", "0", "0", "0", "0", "0", "0", ".", "m", "p", "4">>
CkBig2 ==
    <<"a", "/", "g", "1", "0", "/", "v", "2", "0", "0", "0", "0", "0", "0", "0", "0", "0",
      "0", "0", "0", "0", "0", "0", "0", "0", "0", "0", ".", "m", "p", "4">>
CkBV2  == <<"b", "/", "g", "1", "0", "/", "v", "2", ".", "m", "p", "4">>

\* bucket.Objects lists the object names in lexicographic order
CatalogKeyOrder ==
    <<CkDir, CkDeep, CkV10, CkBig1, CkV2J, CkV2, CkBig2, CkTxt, CkBV2, RootJpg>>

CatalogKeys == {CatalogKeyOrder[i] : i \in DOMAIN CatalogKeyOrder}

\* the largest number of objects in a bucket of the catalog specification
MaxObjects == 3

CatalogBucket(S) == [k \in CatalogKeys |-> IF k \in S THEN "object" ELSE "none"]

CatalogListing(b) == SelectSeq(CatalogKeyOrder, LAMBDA k : b[k] # "none")

\* models.Gallery{}
NoGallery == [Name |-> <<>>, Category |-> <<>>, Stub |-> <<>>, Videos |-> <<>>]

\* the locals of a GetCategories call or of a PageHandler call
NoBuild ==
    [how |-> "none", rest |-> <<>>, videosMap |-> << >>, itErr |-> FALSE,
     logged |-> 0, unsigned |-> {}, videos |-> <<>>, galleries |-> <<>>,
     categories |-> <<>>, found |-> [gallery |-> NoGallery, err |-> FALSE]]

\* the lookup with the empty result of a failed storage.NewClient put in the
\* cache
VideosLookup_CachesFailure(p) ==
    /\ pc[p] = "idle"
    /\ IF CacheFound(cache, now)
       THEN /\ rd' = [rd EXCEPT ![p].how = "hit", ![p].videos = cache.val]
            /\ pc' = [pc EXCEPT ![p] = "galleries"]
            /\ lastRet' = [val |-> cache.val, how |-> "hit", at |-> now]
            /\ cache' = cache
       ELSE \E ok \in BOOLEAN :
              IF ok
              THEN /\ rd' = [rd EXCEPT ![p].rest = CatalogListing(bucket)]
                   /\ pc' = [pc EXCEPT ![p] = "v_next"]
                   /\ lastRet' = lastRet
                   /\ cache' = cache
              ELSE /\ rd' = [rd EXCEPT ![p].how = "fail", ![p].videos = <<>>]
                   /\ pc' = [pc EXCEPT ![p] = "galleries"]
                   /\ lastRet' = [val |-> <<>>, how |-> "fail", at |-> now]
                   /\ cache' = CacheSet(<<>>, flushes, now)
    /\ UNCHANGED <<fn, config, bucket0, bucket, scratch, now, flushes, res, mu>>

\* GetVideosInternal up to the loop: a cache hit returns the cached slice; on
\* a miss storage.NewClient(ctx) follows, and when it fails the call returns
\* []models.Video{}
VideosLookup(p) ==
    /\ pc[p] = "idle"
    /\ IF CacheFound(cache, now)
       THEN /\ rd' = [rd EXCEPT ![p].how = "hit", ![p].videos = cache.val]
            /\ pc' = [pc EXCEPT ![p] = "galleries"]
            /\ lastRet' = [val |-> cache.val, how |-> "hit", at |-> now]
       ELSE \E ok \in BOOLEAN :
              IF ok
              THEN /\ rd' = [rd EXCEPT ![p].rest = CatalogListing(bucket)]
                   /\ pc' = [pc EXCEPT ![p] = "v_next"]
                   /\ lastRet' = lastRet
              ELSE /\ rd' = [rd EXCEPT ![p].how = "fail", ![p].videos = <<>>]
                   /\ pc' = [pc EXCEPT ![p] = "galleries"]
                   /\ lastRet' = [val |-> <<>>, how |-> "fail", at |-> now]
    /\ UNCHANGED <<fn, config, bucket0, bucket, scratch, cache, now, flushes, res, mu>>

\* GetCategories() down to GetVideosInternal
CatalogLookup(p) ==
    /\ op' = [op EXCEPT ![p] = "categories"]
    /\ arg' = arg
    /\ VideosLookup(p)

\* the loop leaving at the first error of it.Next() with what it has so far
CatalogNext_BreakOnError(p) ==
    /\ pc[p] = "v_next"
    /\ \/ /\ rd[p].rest # <<>>
          /\ rd' = [rd EXCEPT ![p].itErr = TRUE]
          /\ pc' = [pc EXCEPT ![p] = "v_sort"]
       \/ /\ rd[p].rest = <<>>
          /\ rd' = rd
          /\ pc' = [pc EXCEPT ![p] = "v_sort"]
       \/ /\ rd[p].rest # <<>>
          /\ \E signed \in BOOLEAN :
                LET name == Head(rd[p].rest)
                IN  rd' = [rd EXCEPT
                             ![p].rest = Tail(@),
                             ![p].videosMap = ProcessObject(@, name, signed),
                             ![p].unsigned =
                                 IF Participates(name) /\ ~signed
                                 THEN @ \cup {name} ELSE @]
          /\ pc' = pc
    /\ UNCHANGED <<fn, config, bucket0, bucket, scratch, cache, now, flushes, lastRet, op, arg, res, mu>>

\* the loop given up at the first object whose URL cannot be signed
CatalogNext_AbortOnUnsigned(p) ==
    /\ pc[p] = "v_next"
    /\ \/ /\ rd' = [rd EXCEPT ![p].itErr = TRUE, ![p].logged = 1 - @]
          /\ pc' = pc
       \/ /\ ~rd[p].itErr
          /\ rd[p].rest = <<>>
          /\ rd' = rd
          /\ pc' = [pc EXCEPT ![p] = "v_sort"]
       \/ /\ ~rd[p].itErr
          /\ rd[p].rest # <<>>
          /\ \E signed \in BOOLEAN :
                LET name == Head(rd[p].rest)
                    skipped == Participates(name) /\ ~signed
                IN  /\ rd' = [rd EXCEPT
                                ![p].rest = IF skipped THEN <<>> ELSE Tail(@),
                                ![p].videosMap = ProcessObject(@, name, signed),
                                ![p].unsigned = IF skipped THEN @ \cup {name} ELSE @]
          /\ pc' = pc
    /\ UNCHANGED <<fn, config, bucket0, bucket, scratch, cache, now, flushes, lastRet, op, arg, res, mu>>

\* file, err := it.Next() and one round of the loop.  iterator.Done leaves
\* the loop.  Any other error is logged and the loop continues with the next
\* it.Next(); the iterator keeps returning the error it returned once (the
\* context deadline of the scan stays exceeded as well)
CatalogNext(p) ==
    /\ pc[p] = "v_next"
    /\ \/ /\ rd' = [rd EXCEPT ![p].itErr = TRUE, ![p].logged = 1 - @]
          /\ pc' = pc
       \/ /\ ~rd[p].itErr
          /\ rd[p].rest = <<>>
          /\ rd' = rd
          /\ pc' = [pc EXCEPT ![p] = "v_sort"]
       \/ /\ ~rd[p].itErr
          /\ rd[p].rest # <<>>
          /\ \E signed \in BOOLEAN :
                LET name == Head(rd[p].rest)
                IN  rd' = [rd EXCEPT
                             ![p].rest = Tail(@),
                             ![p].videosMap = ProcessObject(@, name, signed),
                             ![p].unsigned =
                                 IF Participates(name) /\ ~signed
                                 THEN @ \cup {name} ELSE @]
          /\ pc' = pc
    /\ UNCHANGED <<fn, config, bucket0, bucket, scratch, cache, now, flushes, lastRet, op, arg, res, mu>>

\* the map becomes a slice (in the order the map iteration yields), then
\* sort.Slice by naturalLess on Name, then videoCache.Set; return videos
CatalogSort(p) ==
    /\ pc[p] = "v_sort"
    /\ \E videos \in SortSlice(MapValues(rd[p].videosMap)) :
          /\ rd' = [rd EXCEPT ![p].how = "scan", ![p].videos = videos]
          /\ cache' = CacheSet(videos, flushes, now)
          /\ lastRet' = [val |-> videos, how |-> "scan", at |-> now]
    /\ pc' = [pc EXCEPT ![p] = "galleries"]
    /\ UNCHANGED <<fn, config, bucket0, bucket, scratch, now, flushes, op, arg, res, mu>>

\* GetGalleriesInternal after videos := s.GetVideosInternal(): group by
\* video.Gallery, map to slice, sort.Slice by naturalLess on Name
CatalogGalleries(p) ==
    /\ pc[p] = "galleries"
    /\ \E galleries \in SortSlice(MapValues(
                GalleryMap(rd[p].videos, Len(rd[p].videos), config.SecretKey))) :
          rd' = [rd EXCEPT ![p].galleries = galleries]
    /\ pc' = [pc EXCEPT ![p] = IF op[p] = "page" THEN "find" ELSE "categories"]
    /\ UNCHANGED <<fn, config, bucket0, bucket, scratch, cache, now, flushes, lastRet, op, arg, res, mu>>

\* GetCategoriesInternal after galleries := s.GetGalleriesInternal(): group
\* by gallery.Category, map to slice in the order the map iteration yields
CatalogCategories(p) ==
    /\ pc[p] = "categories"
    /\ \E categories \in Perms(MapValues(
                CategoryMap(rd[p].galleries, Len(rd[p].galleries)))) :
          rd' = [rd EXCEPT ![p].categories = categories]
    /\ pc' = [pc EXCEPT ![p] = "done"]
    /\ res' = [res EXCEPT ![p] = "ok"]
    /\ UNCHANGED <<fn, config, bucket0, bucket, scratch, cache, now, flushes, lastRet, op, arg, mu>>

GetCategories(p) ==
    \/ CatalogLookup(p)
    \/ CatalogNext(p)
    \/ CatalogSort(p)
    \/ CatalogGalleries(p)
    \/ CatalogCategories(p)

(***************************************************************************)
(* handlers.PageHandler and Service.GetGalleryInternal                     *)
(***************************************************************************)

\* the loop with the first gallery returned when no stub matches
GetGalleryInternal_FirstOnNoMatch(galleries, stub) ==
    IF \E i \in 1..Len(galleries) : galleries[i].Stub = stub
    THEN [gallery |-> galleries[CHOOSE i \in 1..Len(galleries) :
                                    /\ galleries[i].Stub = stub
                                    /\ \A j \in 1..(i - 1) : galleries[j].Stub # stub],
          err |-> FALSE]
    ELSE IF galleries # <<>> THEN [gallery |-> galleries[1], err |-> FALSE]
    ELSE [gallery |-> NoGallery, err |-> TRUE]

\* for _, gallery := range galleries { if gallery.Stub == stub { return
\* gallery, nil } }; return models.Gallery{}, fmt.Errorf("gallery not found")
GetGalleryInternal(galleries, stub) ==
    IF \E i \in 1..Len(galleries) : galleries[i].Stub = stub
    THEN [gallery |-> galleries[CHOOSE i \in 1..Len(galleries) :
                                    /\ galleries[i].Stub = stub
                                    /\ \A j \in 1..(i - 1) : galleries[j].Stub # stub],
          err |-> FALSE]
    ELSE [gallery |-> NoGallery, err |-> TRUE]

\* r.URL.String() of the page requests: the stub of a gallery under the
\* secret of the service and under another secret, the stub of a gallery
\* that holds no video, a stub followed by a query, and the bare prefix
PagePaths ==
    { GalleryStub(<<"g", "1", "0">>, SecretA),
      GalleryStub(<<"g", "1", "0">>, SecretB),
      GalleryStub(<<"g", "2">>, SecretA),
      GalleryStub(<<"g", "1", "0">>, SecretA) \o <<"?", "t", "=", "1">>,
      <<"/", "g", "a", "l", "l", "e", "r", "y", "/">> }

\* path := r.URL.String(); services.GetGallery(path) down to GetVideosInternal
PageLookup(p) ==
    /\ \E path \in PagePaths : arg' = [arg EXCEPT ![p] = path]
    /\ op' = [op EXCEPT ![p] = "page"]
    /\ VideosLookup(p)

\* the loop of GetGalleryInternal; on its error http.NotFound(w, r); return
PageFind(p) ==
    /\ pc[p] = "find"
    /\ LET found == GetGalleryInternal(rd[p].galleries, arg[p])
       IN  /\ rd' = [rd EXCEPT ![p].found = found]
           /\ IF found.err
              THEN /\ res' = [res EXCEPT ![p] = "404"]
                   /\ pc' = [pc EXCEPT ![p] = "done"]
              ELSE /\ res' = res
                   /\ pc' = [pc EXCEPT ![p] = "compile"]
    /\ UNCHANGED <<fn, config, bucket0, bucket, scratch, cache, now, flushes, lastRet, op, arg, mu>>

\* pug.CompileFile("./assets/templates/gallery.pug"); on its error
\* http.Error(w, "Internal server error", http.StatusInternalServerError)
PageCompile(p) ==
    /\ pc[p] = "compile"
    /\ \E ok \in BOOLEAN :
          IF ok THEN /\ res' = res
                     /\ pc' = [pc EXCEPT ![p] = "execute"]
          ELSE /\ res' = [res EXCEPT ![p] = "500"]
               /\ pc' = [pc EXCEPT ![p] = "done"]
    /\ UNCHANGED <<fn, config, bucket0, bucket, scratch, cache, now, flushes, lastRet, op, arg, rd, mu>>

\* template.Execute(w, gallery); on its error http.Error(w, ..., 500)
PageExecute(p) ==
    /\ pc[p] = "execute"
    /\ \E ok \in BOOLEAN : res' = [res EXCEPT ![p] = IF ok THEN "200" ELSE "500"]
    /\ pc' = [pc EXCEPT ![p] = "done"]
    /\ UNCHANGED <<fn, config, bucket0, bucket, scratch, cache, now, flushes, lastRet, op, arg, rd, mu>>

PageHandler(p) ==
    \/ PageLookup(p)
    \/ op[p] = "page" /\ CatalogNext(p)
    \/ op[p] = "page" /\ CatalogSort(p)
    \/ op[p] = "page" /\ CatalogGalleries(p)
    \/ PageFind(p)
    \/ PageCompile(p)
    \/ PageExecute(p)

(***************************************************************************)
(* The helper functions called on their own: fn is [name, in, out, done]   *)
(***************************************************************************)

\* a helper function that has not run yet
Pending(name, in) == [name |-> name, in |-> in, out |-> <<>>, done |-> FALSE]

\* the decimal digits of n >= 0
RECURSIVE Decimal(_)
Decimal(n) ==
    IF n < 10 THEN <<Digits[n + 1]>>
    ELSE Decimal(n \div 10) \o <<Digits[(n % 10) + 1]>>

\* fmt.Sprintf("%0<width>d", n) for n >= 0
RECURSIVE ZeroPad(_, _)
ZeroPad(d, width) == IF Len(d) >= width THEN d ELSE ZeroPad(<<"0">> \o d, width)

\* timeStr of createThumbnailWithFFmpeg: "%02d:%02d:%02d.%03d" of hours,
\* minutes, seconds, milliseconds
timeStr(timeMs) ==
    LET totalSeconds == timeMs \div 1000
        milliseconds == timeMs % 1000
        hours        == totalSeconds \div 3600
        minutes      == (totalSeconds % 3600) \div 60
        seconds      == totalSeconds % 60
    IN  ZeroPad(Decimal(hours), 2) \o <<":">> \o ZeroPad(Decimal(minutes), 2) \o <<":">>
            \o ZeroPad(Decimal(seconds), 2) \o <<".">> \o ZeroPad(Decimal(milliseconds), 3)

\* timeStr of createThumbnailWithFFmpeg in pkg/services/thumbnail_service.go:
\* "00:00:%02d.%03d" of seconds, milliseconds
timeStrHourless(timeMs) ==
    LET seconds      == timeMs \div 1000
        milliseconds == timeMs % 1000
    IN  <<"0", "0", ":", "0", "0", ":">>
            \o ZeroPad(Decimal(seconds), 2) \o <<".">> \o ZeroPad(Decimal(milliseconds), 3)

\* the offsets of the model, in parts of an hour, a minute, a second
TimeParts == {0, 1, 59}
TimeHours == {0, 1, 2, 100}
TimeOffsets ==
    {h * 3600000 + m * 60000 + s * 1000 + ms :
        h \in TimeHours, m \in TimeParts, s \in TimeParts, ms \in {0, 1, 999}}

\* createThumbnailWithFFmpeg up to exec.Command("ffmpeg", "-ss", timeStr, ...):
\* the repository holds the function twice, the build runs one of the two
FormatTimestamp ==
    /\ fn.name = "createThumbnailWithFFmpeg"
    /\ ~fn.done
    /\ \E str \in {timeStr(fn.in), timeStrHourless(fn.in)} :
          fn' = [fn EXCEPT !.out = str, !.done = TRUE]
    /\ UNCHANGED <<config, bucket0, bucket, scratch, cache, now, flushes, lastRet, pc, op, arg, res, rd, mu>>

\* const colorDifferenceThreshold = uint32(256)
colorDifferenceThreshold == 256

\* sampleSize := 10
sampleSize == 10

Channels == {"r", "g", "b", "a"}

\* img.At(x, y).RGBA() of a decoded image [width, height, base, spot, spots]:
\* the colour spot at the positions spots, the colour base elsewhere;
\* bounds.Min is (0, 0)
ImageAt(img, x, y) == IF <<x, y>> \in img.spots THEN img.spot ELSE img.base

abs(x) == IF x < 0 THEN 0 - x ELSE x

\* the positions visited with the step rounded up: ten per axis at most
SamplePositions_StepRoundedUp(img) ==
    LET stepX == (img.width + sampleSize - 1) \div sampleSize
        stepY == (img.height + sampleSize - 1) \div sampleSize
    IN  {<<x, y>> : x \in {i \in 0..(img.width - 1) : i % stepX = 0},
                    y \in {j \in 0..(img.height - 1) : j % stepY = 0}}

\* the positions the two loops visit
SamplePositions(img) ==
    LET stepX == IF img.width \div sampleSize = 0 THEN 1 ELSE img.width \div sampleSize
        stepY == IF img.height \div sampleSize = 0 THEN 1 ELSE img.height \div sampleSize
    IN  {<<x, y>> : x \in {i \in 0..(img.width - 1) : i % stepX = 0},
                    y \in {j \in 0..(img.height - 1) : j % stepY = 0}}

\* validateThumbnail after image.Decode, with differentPixels at most one
\* percent of totalSamples rejected as well
validateThumbnail_AtMostOnePercent(img) ==
    LET firstColor == ImageAt(img, 0, 0)
        differentPixels ==
            Cardinality({p \in SamplePositions(img) :
                \E c \in Channels :
                    abs(firstColor[c] - ImageAt(img, p[1], p[2])[c]) > colorDifferenceThreshold})
        totalSamples == Cardinality(SamplePositions(img))
    IN  IF totalSamples > 0 /\ differentPixels * 100 <= totalSamples THEN "solid" ELSE "ok"

\* validateThumbnail after image.Decode: "solid" is the error thumbnail
\* appears to be a solid color.  float64(differentPixels)/float64(totalSamples)
\* < 0.01 is differentPixels * 100 < totalSamples: totalSamples is at most
\* 19 * 19, so the quotient is never within a rounding error of 0.01
validateThumbnail(img) ==
    LET firstColor == ImageAt(img, 0, 0)
        differentPixels ==
            Cardinality({p \in SamplePositions(img) :
                \E c \in Channels :
                    abs(firstColor[c] - ImageAt(img, p[1], p[2])[c]) > colorDifferenceThreshold})
        totalSamples == Cardinality(SamplePositions(img))
    IN  IF totalSamples > 0 /\ differentPixels * 100 < totalSamples THEN "solid" ELSE "ok"

\* the images of the model: a few sizes, a base colour, and up to four
\* positions of a colour that differs from it in one channel
ImageSizes == {<<1, 1>>, <<3, 2>>, <<10, 10>>, <<15, 15>>, <<20, 20>>, <<25, 10>>}
SpotPositions == {<<0, 0>>, <<1, 0>>, <<2, 0>>, <<0, 2>>, <<1, 1>>, <<4, 4>>}
BaseColour == [c \in Channels |-> 1000]
\* the widths and heights of the images of one colour
PlainSizes == {1, 2, 9, 10, 11, 19, 20, 21, 29, 30, 39, 100}
SpotColours ==
    {[BaseColour EXCEPT ![c] = @ + d] : c \in Channels, d \in {-257, 256, 257}}
Images ==
    {[width |-> size[1], height |-> size[2], base |-> BaseColour, spot |-> colour,
      spots |-> {p \in spots : p[1] < size[1] /\ p[2] < size[2]}] :
        size \in ImageSizes, colour \in SpotColours,
        spots \in {S \in SUBSET SpotPositions : Cardinality(S) <= 4}}
    \cup {[width |-> w, height |-> h, base |-> BaseColour, spot |-> BaseColour,
           spots |-> {}] : w \in PlainSizes, h \in PlainSizes}

\* count copies of the character ch
Repeat(ch, count) == [i \in 1..count |-> ch]

\* the paths getSafeFilename is called with: the keys of the bucket, a signed
\* URL with a query, and keys under a/g/ and b/h/ whose file names are 200,
\* 201 and 302 characters long, with the last dot near the end and near the
\* start
LongNames ==
    { Repeat("v", 196) \o <<".", "m", "p", "4">>,
      Repeat("v", 197) \o <<".", "m", "p", "4">>,
      <<"a", ":", "b", "*">> \o Repeat("v", 197) \o <<".", "m", "p", "4">>,
      <<"v", ".">> \o Repeat("a", 198),
      <<"v", ".">> \o Repeat("a", 199),
      <<"v", ".">> \o Repeat("a", 300) }
SafeFilenameInputs ==
    AllKeys
        \cup {k \o <<"?", "X", "=", "1">> : k \in AllKeys}
        \cup {dir \o name : dir \in {<<"a", "/", "g", "/">>, <<"b", "/", "h", "/">>},
                            name \in LongNames}

\* getSafeFilename on a path
SafeFilename ==
    /\ fn.name = "getSafeFilename"
    /\ ~fn.done
    /\ fn' = [fn EXCEPT !.out = getSafeFilename(fn.in), !.done = TRUE]
    /\ UNCHANGED <<config, bucket0, bucket, scratch, cache, now, flushes, lastRet, pc, op, arg, res, rd, mu>>

\* the names naturalLess is called on: numbers with and without leading
\* zeros, letters, and spaces between them
OrderNames ==
    { <<"1">>, <<"0", "1">>, <<"0", "0", "1">>, <<"2">>, <<"1", "0">>,
      <<"1", "a">>, <<"1", "b">>, <<"1", " ", "a">>, <<"1", " ", " ", "a">>,
      <<"a">>, <<"a", "b">>, <<"a", " ", "b">> }

\* naturalLess on each pair of three names: what a sort of the three sees
CompareNames ==
    /\ fn.name = "naturalLess"
    /\ ~fn.done
    /\ fn' = [fn EXCEPT
                !.out = [i \in 1..3 |-> [j \in 1..3 |-> naturalLess(fn.in[i], fn.in[j])]],
                !.done = TRUE]
    /\ UNCHANGED <<config, bucket0, bucket, scratch, cache, now, flushes, lastRet, pc, op, arg, res, rd, mu>>

\* validateThumbnail on a decoded image
ValidateImage ==
    /\ fn.name = "validateThumbnail"
    /\ ~fn.done
    /\ fn' = [fn EXCEPT !.out = validateThumbnail(fn.in), !.done = TRUE]
    /\ UNCHANGED <<config, bucket0, bucket, scratch, cache, now, flushes, lastRet, pc, op, arg, res, rd, mu>>

\* FetchMoviePoster up to the check of movie.PosterPath
SearchPoster ==
    /\ fn.name = "FetchMoviePoster"
    /\ ~fn.done
    /\ fn' = [fn EXCEPT !.out = PosterSearch(fn.in.apiKey, fn.in.movieTitle, fn.in.reply),
                        !.done = TRUE]
    /\ UNCHANGED <<config, bucket0, bucket, scratch, cache, now, flushes, lastRet, pc, op, arg, res, rd, mu>>

HelperCalls ==
    {Pending("createThumbnailWithFFmpeg", t) : t \in TimeOffsets}
        \cup {Pending("FetchMoviePoster",
                      [apiKey |-> k, movieTitle |-> t, reply |-> r]) :
                 k \in ApiKeys, t \in MovieTitles, r \in SearchReplies}
        \cup {Pending("validateThumbnail", img) : img \in Images}
        \cup {Pending("getSafeFilename", p) : p \in SafeFilenameInputs}
        \cup {Pending("naturalLess", <<a, b, c>>) : a \in OrderNames, b \in OrderNames, c \in OrderNames}

(***************************************************************************)
(* Specifications                                                          *)
(***************************************************************************)

InitWith(B) ==
    /\ config = [SecretKey |-> SecretA]
    /\ bucket \in B
    /\ bucket0 = bucket
    /\ scratch = [f \in ScratchPaths |-> NoFile]
    /\ cache = NoEntry
    /\ now = 0
    /\ flushes = 0
    /\ lastRet = NoRet
    /\ pc = [p \in Calls |-> "idle"]
    /\ op = [p \in Calls |-> "none"]
    /\ arg = [p \in Calls |-> <<>>]
    /\ res = [p \in Calls |-> "none"]
    /\ rd = [p \in Readers |-> NoRead]
    /\ mu = [p \in Mutators |-> NoMut]
    /\ fn = NoCall

\* the catalog cache: three page requests, one ClearThumbnail request, the clock
InitCache == InitWith({BucketWith({JpgA})})

\* the requests are numbered in their order of arrival
Earlier(p) ==
    CASE p = "r1" -> {}
      [] p = "r2" -> {"r1"}
      [] p = "r3" -> {"r1", "r2"}

Arrived(p) == \A q \in Earlier(p) : pc[q] # "idle"

NextCache ==
    \/ \E p \in Readers : Arrived(p) /\ GetVideosInternal(p)
    \/ ClearThumbnail("m1")
    \/ Return("m1")
    \/ Tick

SpecCache == InitCache /\ [][NextCache]_vars

\* the single-item requests, two at a time
InitSingle == InitWith({BucketWith({}), BucketWith({JpgA})})

NextSingle ==
    \E m \in Mutators :
        \/ GenerateThumbnailWithProgress(m)
        \/ ClearThumbnail(m)
        \/ FetchMoviePoster(m)
        \/ Return(m)

SpecSingle == InitSingle /\ [][NextSingle]_vars

\* the bulk requests, one at a time, with one ClearThumbnail request
InitBulk == InitWith({BucketWith(T) : T \in SUBSET {JpgA, PngB, JpgC}})

NextBulk ==
    \/ BulkGenerateThumbnails("m1")
    \/ BulkClearThumbnails("m1")
    \/ Return("m1")
    \/ ClearThumbnail("m2")
    \/ Return("m2")

SpecBulk == InitBulk /\ [][NextBulk]_vars

\* one thumbnail request of any kind, with one page request
InitMutation == InitWith({BucketWith({JpgA})})

NextMutation ==
    \/ GenerateThumbnailWithProgress("m1")
    \/ ClearThumbnail("m1")
    \/ FetchMoviePoster("m1")
    \/ BulkGenerateThumbnails("m1")
    \/ BulkClearThumbnails("m1")
    \/ Return("m1")
    \/ GetVideosInternal("r1")

SpecMutation == InitMutation /\ [][NextMutation]_vars

\* the catalog: two page requests, one after the other, over a bucket of at
\* most MaxObjects objects
InitCatalog ==
    /\ config \in {[SecretKey |-> SecretA], [SecretKey |-> SecretB]}
    /\ bucket \in {CatalogBucket(S) :
                     S \in {T \in SUBSET CatalogKeys : Cardinality(T) <= MaxObjects}}
    /\ bucket0 = bucket
    /\ scratch = [f \in ScratchPaths |-> NoFile]
    /\ cache = NoEntry
    /\ now = 0
    /\ flushes = 0
    /\ lastRet = NoRet
    /\ pc = [p \in Calls |-> "idle"]
    /\ op = [p \in Calls |-> "none"]
    /\ arg = [p \in Calls |-> <<>>]
    /\ res = [p \in Calls |-> "none"]
    /\ rd = [p \in Readers |-> NoBuild]
    /\ mu = [p \in Mutators |-> NoMut]
    /\ fn = NoCall

\* the time to live of the cached list runs out
CatalogExpires ==
    /\ cache.present
    /\ ~(now > cache.exp)
    /\ cache.exp + 1 <= MaxTime
    /\ now' = cache.exp + 1
    /\ UNCHANGED <<fn, config, bucket0, bucket, scratch, cache, flushes, lastRet, pc, op, arg, res, rd, mu>>

\* the second page request comes after the first has been answered, at
\* once or when the cached list has expired
NextCatalog ==
    \/ GetCategories("r1")
    \/ pc["r1"] = "done" /\ GetCategories("r2")
    \/ pc["r1"] = "done" /\ pc["r2"] = "idle" /\ CatalogExpires

SpecCatalog == InitCatalog /\ [][NextCatalog]_vars

\* each page request keeps running: its goroutine is scheduled again and again
SpecCatalogFair ==
    /\ SpecCatalog
    /\ WF_vars(GetCategories("r1"))
    /\ WF_vars(pc["r1"] = "done" /\ GetCategories("r2"))

\* a gallery page request after an index page request has been answered, at
\* once or when the cached list has expired
NextPage ==
    \/ GetCategories("r1")
    \/ pc["r1"] = "done" /\ PageHandler("r3")
    \/ pc["r1"] = "done" /\ pc["r3"] = "idle" /\ CatalogExpires

\* the buckets of the page requests hold videos of the gallery g10 in two
\* categories and a text file of the gallery g2
PageKeys == {CkV10, CkV2, CkBV2, CkTxt}

InitPage ==
    /\ InitCatalog
    /\ \A k \in CatalogKeys \ PageKeys : bucket[k] = "none"

SpecPage == InitPage /\ [][NextPage]_vars

\* one helper function called on its own, on one of the inputs of the model
InitHelpers ==
    /\ config = [SecretKey |-> SecretA]
    /\ bucket = BucketWith({})
    /\ bucket0 = bucket
    /\ scratch = [f \in ScratchPaths |-> NoFile]
    /\ cache = NoEntry
    /\ now = 0
    /\ flushes = 0
    /\ lastRet = NoRet
    /\ pc = [p \in Calls |-> "idle"]
    /\ op = [p \in Calls |-> "none"]
    /\ arg = [p \in Calls |-> <<>>]
    /\ res = [p \in Calls |-> "none"]
    /\ rd = [p \in Readers |-> NoRead]
    /\ mu = [p \in Mutators |-> NoMut]
    /\ fn \in HelperCalls

NextHelpers ==
    \/ FormatTimestamp
    \/ SearchPoster
    \/ ValidateImage
    \/ SafeFilename
    \/ CompareNames

SpecHelpers == InitHelpers /\ [][NextHelpers]_vars

\* every request of the service
Init == InitBulk

Next ==
    \/ \E p \in Readers : GetVideosInternal(p)
    \/ \E m \in Mutators :
          \/ GenerateThumbnailWithProgress(m)
          \/ ClearThumbnail(m)
          \/ FetchMoviePoster(m)
          \/ BulkGenerateThumbnails(m)
          \/ BulkClearThumbnails(m)
          \/ Return(m)
    \/ Tick

Spec == Init /\ [][Next]_vars

(***************************************************************************)
(* Properties                                                              *)
(***************************************************************************)

Returned(m) == pc[m] \in {"ret", "done"}

\* the steps the call logged, by name
StepNames(m) == [i \in 1..Len(mu[m].steps) |-> mu[m].steps[i].s]

\* the call logged a step s that succeeded / that failed
Succeeded(m, s) == \E i \in 1..Len(mu[m].steps) : mu[m].steps[i] = [s |-> s, ok |-> TRUE]
FailedStep(m, s) == \E i \in 1..Len(mu[m].steps) : mu[m].steps[i] = [s |-> s, ok |-> FALSE]

\* C1: a GetVideosInternal call that starts after a Flush has completed never
\* returns a snapshot built from a bucket listing taken before that Flush,
\* also when another call's rebuild was in flight at the Flush.
C1_FreshAfterInvalidate ==
    \A p \in Readers :
        (pc[p] = "done" /\ rd[p].how \in {"hit", "scan"})
            => rd[p].retEpoch >= rd[p].startEpoch

\* C2: when GenerateThumbnail, ClearThumbnail, FetchMoviePoster,
\* BulkGenerateThumbnails or BulkClearThumbnails returns success, the cache
\* was flushed after the call's last write or delete on the bucket and
\* before the call returned; unless a page request was rebuilding at that
\* flush, an entry the cache holds later was listed after it.
C2_FlushAfterLastWrite ==
    \A m \in Mutators :
        (Returned(m) /\ res[m] = "ok") =>
            /\ ~mu[m].dirty
            /\ mu[m].nflush >= 1
            /\ mu[m].steps[Len(mu[m].steps)].s = "flush"
            /\ (~mu[m].racing /\ cache.present) => cache.epoch >= mu[m].flushAt

C2_Witness ==
    /\ op["m1"] = "bulkgen" /\ pc["m1"] = "done" /\ res["m1"] = "ok"
    /\ mu["m1"].processed = 2
    /\ rd["r1"].how = "scan" /\ pc["r1"] = "done"
    /\ rd["r1"].startEpoch = 1
    /\ {JpgA, JpgB, JpgC} \subseteq rd["r1"].ret

\* C3 as claimed: of two GetVideosInternal calls within the time-to-live
\* with no Flush between them, the second returns what the first returned
\* and does not scan.
C3_SameSnapshotAlways ==
    [][\A q \in Readers :
          (pc[q] = "idle" /\ pc'[q] # "idle" /\ lastRet.how # "none" /\ now < TTL)
              => (pc'[q] = "done" /\ rd'[q].how = "hit" /\ rd'[q].ret = lastRet.val)
      ]_vars

\* C3, amended: a call that finds the entry present and not expired returns
\* the entry's value and does not scan, and a call scans only when the entry
\* is absent or expired; the entry expires TTL minutes after it was stored;
\* while no Flush happened, the entry is what the call that returned last
\* returned, when that call found or stored a snapshot.
C3_HitWithinTTL ==
    /\ [](lastRet.how \in {"hit", "scan"} =>
            (cache.present /\ cache.val = lastRet.val))
    /\ [][\A q \in Readers :
            /\ (pc[q] = "idle" /\ pc'[q] # "idle") =>
                  IF cache.present /\ now <= cache.exp
                  THEN /\ pc'[q] = "done"
                       /\ rd'[q].how = "hit"
                       /\ rd'[q].ret = cache.val
                       /\ lastRet.how \in {"hit", "scan"} => rd'[q].ret = lastRet.val
                  ELSE rd'[q].how # "hit"
            /\ (pc[q] = "store" /\ pc'[q] = "done") =>
                  /\ cache'.present
                  /\ cache'.val = rd'[q].ret
                  /\ cache'.exp = now + TTL
        ]_vars

C3_Witness ==
    /\ rd["r1"].how = "scan" /\ pc["r1"] = "done"
    /\ rd["r2"].how = "hit" /\ rd["r2"].ret = rd["r1"].ret
    /\ rd["r3"].how = "scan" /\ pc["r3"] = "done"
    /\ flushes = 0
    /\ now = MaxTime

\* the order of the steps of GenerateThumbnailWithProgress
GenOrder ==
    <<"checkFFmpeg", "mkdir", "client", "preclear", "download", "extract",
      "validate", "upload", "flush">>

\* C4: a GenerateThumbnail call runs its steps only in the order check the
\* tool, scratch directory, (storage client,) pre-clear, download, extract,
\* validate, upload, flush; a step other than the pre-clear that fails is the
\* last step of the call, and the call returns the error of that step.
C4_StepsInOrder ==
    \A m \in Mutators :
        op[m] = "generate" =>
            LET names == StepNames(m)
                n == Len(names)
            IN  /\ names = SubSeq(GenOrder, 1, n)
                /\ \A i \in 1..n :
                      (~mu[m].steps[i].ok /\ names[i] # "preclear") =>
                          (i = n /\ res[m] = names[i] /\ Returned(m))
                /\ res[m] \notin {"none", "ok"} =>
                      (n >= 1 /\ names[n] = res[m] /\ ~mu[m].steps[n].ok
                       /\ mu[m].nflush = 0)
                /\ res[m] = "ok" => names = GenOrder

C4_Witness ==
    /\ op["m1"] = "generate" /\ pc["m1"] = "done" /\ res["m1"] = "validate"
    /\ op["m2"] = "generate" /\ pc["m2"] = "done" /\ res["m2"] = "ok"

\* C5: when a GenerateThumbnail call has returned, no scratch file created
\* by that call still exists.
C5_NoScratchLeft ==
    \A m \in Mutators :
        (op[m] = "generate" /\ pc[m] = "done") =>
            \A f \in ScratchPaths : scratch[f].c = "none" \/ scratch[f].by # m

\* C6: a thumbnail object is written only after the frame was extracted and
\* passed validation in the same run, and a solid-color frame is never
\* uploaded.
C6_OnlyValidatedFrames ==
    /\ \A m \in Mutators :
          op[m] \in {"generate", "bulkgen"} =>
              \A i \in 1..Len(mu[m].steps) :
                  mu[m].steps[i].s = "upload" =>
                      /\ i > 2
                      /\ mu[m].steps[i - 1] = [s |-> "validate", ok |-> TRUE]
                      /\ mu[m].steps[i - 2] = [s |-> "extract", ok |-> TRUE]
    /\ \A m \in Mutators :
          op[m] \in {"generate", "bulkgen"} => "blank" \notin mu[m].wrote

\* C7: ClearThumbnail returns an error whenever the delete fails and then
\* does not flush the cache; when the delete succeeds it flushes the cache
\* and returns success.
C7_ClearReportsDeleteFailure ==
    \A m \in Mutators :
        (op[m] = "clear" /\ Returned(m)) =>
            /\ FailedStep(m, "delete") =>
                  (res[m] = "delete" /\ mu[m].nflush = 0 /\ ~Succeeded(m, "flush"))
            /\ Succeeded(m, "delete") =>
                  (res[m] = "ok" /\ mu[m].nflush = 1
                   /\ StepNames(m) = <<"client", "delete", "flush">>)
            /\ res[m] = "ok" => Succeeded(m, "delete")

C7_Witness ==
    /\ op["m1"] = "clear" /\ pc["m1"] = "done" /\ res["m1"] = "delete"
    /\ op["m2"] = "clear" /\ pc["m2"] = "done" /\ res["m2"] = "ok"
    /\ flushes = 1

\* the number of logged steps among S with outcome ok
CountSteps(m, S, ok) ==
    Cardinality({i \in 1..Len(mu[m].steps) :
                    mu[m].steps[i].s \in S /\ mu[m].steps[i].ok = ok})

PerVideoSteps == {"download", "extract", "validate", "upload"}

\* each per-video failure counts one error and does not end the call, and
\* the two counters add up to the videos the pipeline ran for
BulkCounts(m) ==
    LET inflight == IF pc[m] \in {"b_extract", "b_validate", "b_upload"} THEN 1 ELSE 0
    IN  /\ mu[m].errors = CountSteps(m, PerVideoSteps, FALSE)
        /\ mu[m].processed = CountSteps(m, {"upload"}, TRUE)
        /\ mu[m].processed + mu[m].errors + inflight = Cardinality(mu[m].selected)
        /\ res[m] \notin PerVideoSteps
        /\ res[m] = "ok" =>
              mu[m].processed + mu[m].errors = Cardinality(mu[m].selected)

\* C8 as claimed: per-video failures are counted and skipped, the counters
\* add up, and only a failure to list the bucket is fatal.
C8_OnlyListingFatal ==
    \A m \in Mutators :
        op[m] = "bulkgen" =>
            /\ BulkCounts(m)
            /\ res[m] \notin {"none", "ok"} => res[m] = "list"

\* C8, amended: per-video failures are counted and skipped, the counters add
\* up, and only a failure of the setup (tool check, scratch directory,
\* storage client) or a failure to list the bucket is fatal.
C8_SetupOrListingFatal ==
    \A m \in Mutators :
        op[m] = "bulkgen" =>
            /\ BulkCounts(m)
            /\ res[m] \notin {"none", "ok"} =>
                  res[m] \in {"checkFFmpeg", "mkdir", "client", "list"}

C8_Witness ==
    /\ op["m1"] = "bulkgen" /\ pc["m1"] = "done" /\ res["m1"] = "ok"
    /\ mu["m1"].errors = 2 /\ mu["m1"].processed = 1
    /\ FailedStep("m1", "download") /\ FailedStep("m1", "validate")

\* the video objects of the second listing the rule of the claim selects
SelectedByRule(m) ==
    LET images == {mu[m].list1[i] : i \in 1..Len(mu[m].list1)}
        listed == {mu[m].listing[i] : i \in 1..Len(mu[m].listing)}
    IN  {v \in listed :
            /\ Len(Split(v)) = 3
            /\ isVideo(v)
            /\ \/ arg[m] = TRUE
               \/ ~\E g \in images :
                      /\ Len(Split(g)) = 3
                      /\ isImage(g)
                      /\ SubSeq(g, 1, Len(g) - Len(Ext(g)))
                            = SubSeq(v, 1, Len(v) - Len(Ext(v)))}

ThumbnailCount == Cardinality({k \in Present(bucket) : IsThumbnail(k)})

\* C9: BulkGenerateThumbnails runs the pipeline for exactly the 3-segment
\* video objects whose base-key has no image in the first listing, and for
\* every 3-segment video object when force is set; on a bucket with three
\* videos and one thumbnail, with no failure and nothing else running, it
\* processes two videos and leaves three thumbnails.
C9_SelectsByRule ==
    \A m \in Mutators :
        op[m] = "bulkgen" =>
            /\ mu[m].selected \subseteq SelectedByRule(m)
            /\ res[m] = "ok" => mu[m].selected = SelectedByRule(m)
            /\ ( /\ res[m] = "ok"
                 /\ arg[m] = FALSE
                 /\ mu[m].errors = 0
                 /\ \A o \in Mutators \ {m} : pc[o] = "idle"
                 /\ \E t \in Thumbs : bucket0 = BucketWith({t}) )
               => (mu[m].processed = 2 /\ ThumbnailCount = 3)

C9_Witness ==
    /\ op["m1"] = "bulkgen" /\ pc["m1"] = "done" /\ res["m1"] = "ok"
    /\ arg["m1"] = FALSE
    /\ bucket0 = BucketWith({JpgA})
    /\ pc["m2"] = "idle"
    /\ mu["m1"].selected = {VidB, VidC}
    /\ mu["m1"].processed = 2 /\ mu["m1"].errors = 0
    /\ ThumbnailCount = 3

\* the last logged step of the call is its flush
FlushIsLast(m) ==
    /\ mu[m].steps # <<>>
    /\ mu[m].steps[Len(mu[m].steps)].s = "flush"

\* C10: a bulk call never flushes the cache more than once, and a call that
\* uploaded or deleted an object has, when it returns, flushed the cache
\* exactly once, after its last upload or delete.
C10_FlushOnceAfterLastWrite ==
    \A m \in Mutators :
        op[m] \in {"bulkgen", "bulkclear"} =>
            /\ mu[m].nflush <= 1
            /\ (pc[m] = "done" /\ CountSteps(m, {"upload", "delete"}, TRUE) >= 1) =>
                  (mu[m].nflush = 1 /\ FlushIsLast(m) /\ ~mu[m].dirty)

\* the per-video pipelines a bulk call has started, and those it has finished
PipelinesStarted(m) ==
    CountSteps(m, {"download"}, TRUE) + CountSteps(m, {"download"}, FALSE)

PipelinesFinished(m) ==
    CountSteps(m, PerVideoSteps, FALSE) + CountSteps(m, {"upload"}, TRUE)

\* C11: during a BulkGenerateThumbnails call at most one per-video pipeline
\* is in flight (the loop is sequential: the ceiling is one), and every
\* finished pipeline is counted exactly once, as processed or as an error.
C11_BoundedAndCounted ==
    \A m \in Mutators :
        op[m] = "bulkgen" =>
            /\ PipelinesStarted(m) - PipelinesFinished(m) \in {0, 1}
            /\ (PipelinesStarted(m) - PipelinesFinished(m) = 1)
                  <=> pc[m] \in {"b_extract", "b_validate", "b_upload"}
            /\ mu[m].processed = CountSteps(m, {"upload"}, TRUE)
            /\ mu[m].errors = CountSteps(m, PerVideoSteps, FALSE)
            /\ mu[m].processed + mu[m].errors = PipelinesFinished(m)

C11_Witness ==
    /\ op["m1"] = "bulkgen" /\ pc["m1"] = "b_upload"
    /\ mu["m1"].processed = 1 /\ mu["m1"].errors = 1
    /\ PipelinesStarted("m1") = 3

\* the objects the claim lets BulkClearThumbnails delete
ClearableImages(keys) ==
    {k \in keys :
        /\ Len(Split(k)) = 3
        /\ \E e \in {<<".", "j", "p", "g">>, <<".", "j", "p", "e", "g">>,
                     <<".", "p", "n", "g">>} : HasSuffix(Split(k)[3], e)}

\* C12: BulkClearThumbnails tries to delete every listed object with exactly
\* three segments and an image extension, and no other object; a failed
\* delete does not end the call; deletedCount is the number of deletes that
\* succeeded; when every delete succeeded and nothing else ran, no such
\* image is left in the bucket.
C12_ClearsExactlyImages ==
    \A m \in Mutators :
        op[m] = "bulkclear" =>
            LET seen == {mu[m].listing[i] : i \in 1..mu[m].idx}
                all == {mu[m].listing[i] : i \in 1..Len(mu[m].listing)}
            IN  /\ mu[m].selected = ClearableImages(seen)
                /\ Cardinality(mu[m].selected)
                      = CountSteps(m, {"delete"}, TRUE) + CountSteps(m, {"delete"}, FALSE)
                /\ mu[m].deleted = CountSteps(m, {"delete"}, TRUE)
                /\ res[m] # "delete"
                /\ res[m] = "ok" => mu[m].selected = ClearableImages(all)
                /\ ( /\ res[m] = "ok"
                     /\ CountSteps(m, {"delete"}, FALSE) = 0
                     /\ \A o \in Mutators \ {m} : pc[o] = "idle" )
                   => ClearableImages(Present(bucket)) = {}

C12_Witness ==
    /\ op["m1"] = "bulkclear" /\ pc["m1"] = "done" /\ res["m1"] = "ok"
    /\ mu["m1"].deleted = 2
    /\ CountSteps("m1", {"delete"}, FALSE) = 1
    /\ mu["m1"].selected = {JpgA, PngB, JpgC}
    /\ bucket[RootJpg] # "none"

\* the objects in the bucket of the catalog specification
CatalogPresent == {k \in CatalogKeys : bucket[k] # "none"}

\* a page request whose scan ran to its end with every URL signed
CleanScan(p) ==
    /\ rd[p].how = "scan"
    /\ rd[p].unsigned = {}

\* the filename without its video or image extension, if it has one
WithoutMediaExtension(filename) ==
    IF \E e \in videoExtensions \cup imageExtensions : HasSuffix(filename, e)
    THEN LET e == CHOOSE x \in videoExtensions \cup imageExtensions :
                      HasSuffix(filename, x)
         IN  SubSeq(filename, 1, Len(filename) - Len(e))
    ELSE filename

VideosOf(p) == {rd[p].videos[i] : i \in 1..Len(rd[p].videos)}

\* C13: an object key contributes to the catalog iff it has exactly three
\* segments and a non-empty third one; for such a key there is a Video with
\* category and gallery equal to segments 0 and 1 and with the name equal to
\* the filename without its video or image extension; a key with another
\* number of segments appears in no Video.
C13_ThreeSegmentRule ==
    \A p \in {"r1", "r2"} :
        CleanScan(p) =>
            \A k \in CatalogPresent :
                LET parts == Split(k)
                IN  IF Len(parts) = 3 /\ parts[3] # <<>>
                    THEN \E v \in VideosOf(p) :
                            /\ v.Category = parts[1]
                            /\ v.Gallery = parts[2]
                            /\ v.Name = WithoutMediaExtension(parts[3])
                    ELSE \A v \in VideosOf(p) :
                            /\ v.VideoPath # k
                            /\ v.ThumbnailPath # k
                            /\ v.Name # WithoutMediaExtension(parts[Len(parts)])

\* the participating objects of the bucket, and the identity of each
Participating == {k \in CatalogPresent : Participates(k)}

Triple(k) ==
    LET parts == Split(k) IN <<parts[1], parts[2], ReplaceExtension(parts[3])>>

\* C14: a video object and an image object with the same category, gallery
\* and base name (the only video and the only image with them) merge into
\* exactly one Video; its url comes from the video object and its thumbnail
\* from the image object; the two orders of processing give the same Video.
C14_PairMergesIntoOne ==
    \A p \in {"r1", "r2"} :
        CleanScan(p) =>
            \A v, g \in Participating :
                ( /\ isVideo(v) /\ isImage(g)
                  /\ Triple(v) = Triple(g)
                  /\ \A k \in Participating :
                        Triple(k) = Triple(v) => k \in {v, g} )
                => /\ Cardinality({i \in 1..Len(rd[p].videos) :
                        <<rd[p].videos[i].Category, rd[p].videos[i].Gallery,
                          rd[p].videos[i].Name>> = Triple(v)}) = 1
                   /\ \A x \in VideosOf(p) :
                        <<x.Category, x.Gallery, x.Name>> = Triple(v) =>
                            /\ x.Url = SignedURL(v) /\ x.VideoPath = v
                            /\ x.Thumbnail = SignedURL(g) /\ x.ThumbnailPath = g
                   /\ ProcessObject(ProcessObject(<< >>, v, TRUE), g, TRUE)
                        = ProcessObject(ProcessObject(<< >>, g, TRUE), v, TRUE)

\* C15: one scan yields exactly one Video for each distinct (category,
\* gallery, base name) among the participating keys, and the objects a
\* Video points to have the Video's category and gallery.
C15_IdentityIsTriple ==
    \A p \in {"r1", "r2"} :
        CleanScan(p) =>
            /\ {<<x.Category, x.Gallery, x.Name>> : x \in VideosOf(p)}
                  = {Triple(k) : k \in Participating}
            /\ Len(rd[p].videos) = Cardinality({Triple(k) : k \in Participating})
            /\ \A x \in VideosOf(p) :
                  /\ x.VideoPath # <<>> =>
                        Triple(x.VideoPath) = <<x.Category, x.Gallery, x.Name>>
                  /\ x.ThumbnailPath # <<>> =>
                        Triple(x.ThumbnailPath) = <<x.Category, x.Gallery, x.Name>>

\* the page of a request that has built its categories
Built(p) == pc[p] = "done"

\* how many times x occurs in the sequences seqs[1], seqs[2], ...
Occurrences(x, seqs) ==
    Cardinality({ij \in UNION {{<<i, j>> : j \in 1..Len(seqs[i])} : i \in 1..Len(seqs)} :
                    seqs[ij[1]][ij[2]] = x})

\* C16: every Video of a page is in exactly one Gallery and every Gallery
\* in exactly one Category; a Video inside a Gallery has the Gallery's
\* category and gallery name, a Gallery inside a Category the Category's
\* name; galleries with the same name in different categories are
\* separate galleries.
C16_GroupingIsPartition ==
    \A p \in {"r1", "r2"} :
        Built(p) =>
            LET galleries == rd[p].galleries
                categories == rd[p].categories
                videoLists == [i \in 1..Len(galleries) |-> galleries[i].Videos]
                galleryLists == [i \in 1..Len(categories) |-> categories[i].Galleries]
            IN  /\ \A v \in VideosOf(p) : Occurrences(v, videoLists) = 1
                /\ \A i \in 1..Len(galleries) :
                      Occurrences(galleries[i], galleryLists) = 1
                /\ \A i \in 1..Len(galleries) :
                      \A j \in 1..Len(galleries[i].Videos) :
                          /\ galleries[i].Videos[j].Category = galleries[i].Category
                          /\ galleries[i].Videos[j].Gallery = galleries[i].Name
                /\ \A i \in 1..Len(categories) :
                      \A j \in 1..Len(categories[i].Galleries) :
                          categories[i].Galleries[j].Category = categories[i].Name
                /\ Len(galleries)
                      = Cardinality({<<v.Category, v.Gallery>> : v \in VideosOf(p)})

GalleriesOf(p) == {rd[p].galleries[i] : i \in 1..Len(rd[p].galleries)}

\* the route under which a gallery page is served
GalleryRoute == <<"/", "g", "a", "l", "l", "e", "r", "y", "/">>

\* the part of a Stub after the route
StubHash(stub) == SubSeq(stub, Len(GalleryRoute) + 1, Len(stub))

UrlSafe(str) ==
    \A i \in 1..Len(str) : \E j \in 1..Len(Base64UrlAlphabet) : Base64UrlAlphabet[j] = str[i]

WholeBuild(p) ==
    /\ Built(p)
    /\ rd[p].how \in {"scan", "hit"}
    /\ rd["r1"].how = "scan" /\ rd["r1"].unsigned = {}
    /\ rd[p].unsigned = {}

\* C18: two builds over the same bucket give the same sequence of
\* categories, each with the same sequence of galleries, each with the same
\* sequence of videos.
C18_SameOrderEveryBuild ==
    (WholeBuild("r1") /\ WholeBuild("r2")) =>
        rd["r1"].categories = rd["r2"].categories

\* the number of run a is smaller than the number of run b
NumberLess(a, b) == IntLess(StripZeros(a), StripZeros(b))

\* the run of digits of name that starts at position i
RunAt(name, i) ==
    LET e == CHOOSE e \in i..Len(name) :
                 /\ \A k \in i..e : IsDigit(name[k])
                 /\ e = Len(name) \/ ~IsDigit(name[e + 1])
    IN  SubSeq(name, i, e)

\* a and b are equal up to a run of digits, and the number of a is smaller
NumericallyBefore(a, b) ==
    \E i \in 1..Len(a) :
        /\ i <= Len(b)
        /\ SubSeq(a, 1, i - 1) = SubSeq(b, 1, i - 1)
        /\ i = 1 \/ ~IsDigit(a[i - 1])
        /\ IsDigit(a[i]) /\ IsDigit(b[i])
        /\ NumberLess(RunAt(a, i), RunAt(b, i))

\* a and b differ first in a character outside the runs of digits, and the
\* character of a is smaller; or a is the beginning of b
AlphabeticallyBefore(a, b) ==
    /\ ~NumericallyBefore(a, b) /\ ~NumericallyBefore(b, a)
    /\ \/ \E i \in 1..Len(a) :
             /\ i <= Len(b)
             /\ SubSeq(a, 1, i - 1) = SubSeq(b, 1, i - 1)
             /\ ByteOf(a[i]) < ByteOf(b[i])
       \/ Len(a) < Len(b) /\ a = SubSeq(b, 1, Len(a))

NaturalBefore(a, b) == NumericallyBefore(a, b) \/ AlphabeticallyBefore(a, b)

\* the names of a sequence of records are in natural order
InNaturalOrder(seq) ==
    \A i, j \in 1..Len(seq) :
        i < j => /\ seq[i].Name # seq[j].Name
                 /\ ~NaturalBefore(seq[j].Name, seq[i].Name)

\* C19: in every page, the galleries of each category and the videos of
\* each gallery are in natural order of their names: of two names equal up to
\* a run of digits the one with the smaller number comes first (v2 before
\* v10, g2 before g10), otherwise the first different character decides.
C19_NaturalOrder ==
    \A p \in {"r1", "r2"} :
        Built(p) =>
            \A c \in 1..Len(rd[p].categories) :
                LET galleries == rd[p].categories[c].Galleries
                IN  /\ InNaturalOrder(galleries)
                    /\ \A g \in 1..Len(galleries) : InNaturalOrder(galleries[g].Videos)

\* C20: a page request that has started its scan returns, and a request
\* whose listing failed returns with an empty catalog.
C20_ScanTerminates ==
    \A p \in {"r1", "r2"} :
        /\ (pc[p] = "v_next") ~> (pc[p] = "done")
        /\ []((Built(p) /\ rd[p].itErr) => rd[p].categories = <<>>)

\* C21: the cache entry is replaced only by a scan that listed the bucket
\* to its end: the call that stores an entry has met no error of the
\* iterator and has no object left to list, and a call that met one stores
\* nothing, then or later.
C21_OnlyCompleteScansStored ==
    [][ /\ (cache' # cache /\ cache'.present) =>
            \E p \in {"r1", "r2"} :
                /\ pc[p] = "v_sort"
                /\ ~rd[p].itErr
                /\ rd[p].rest = <<>>
        /\ \A p \in {"r1", "r2"} :
              rd[p].itErr => (rd'[p].itErr /\ pc'[p] = "v_next" /\ cache' = cache)
      ]_vars

\* a scan met an error of the iterator after it had processed objects and
\* with objects left to list; nothing is in the cache
C21_Witness ==
    \E p \in {"r1", "r2"} :
        /\ rd[p].itErr
        /\ rd[p].videosMap # << >>
        /\ rd[p].rest # <<>>
        /\ ~cache.present

\* the videos of a scan of the objects names[1..n] with every URL signed
RECURSIVE ScanSigned(_, _)
ScanSigned(names, n) ==
    IF n = 0 THEN << >>
    ELSE ProcessObject(ScanSigned(names, n - 1), names[n], TRUE)

\* the listing of the bucket without the objects of U
ListingWithout(U) ==
    LET l == CatalogListing(bucket)
        F[i \in 0..Len(l)] ==
            IF i = 0 THEN <<>>
            ELSE IF l[i] \in U THEN F[i - 1] ELSE Append(F[i - 1], l[i])
    IN  F[Len(l)]

\* C22: a scan in which the URLs of some objects could not be signed
\* returns the videos that a scan of the bucket without those objects
\* returns: each of them alone is skipped, every other object contributes
\* what it contributes otherwise.
C22_UnsignedAloneSkipped ==
    \A p \in {"r1", "r2"} :
        rd[p].how = "scan" =>
            VideosOf(p) = MapValues(ScanSigned(ListingWithout(rd[p].unsigned),
                                               Len(ListingWithout(rd[p].unsigned))))

\* a scan that could not sign a/g10/v10.mp4 and returned the video of
\* a/g10/v2.mp4, listed after it
C22_Witness ==
    \E p \in {"r1", "r2"} :
        /\ rd[p].how = "scan"
        /\ rd[p].unsigned = {CkV10}
        /\ \E v \in VideosOf(p) : v.VideoPath = CkV2

\* the number a run of digits stands for
RECURSIVE DecimalValue(_)
DecimalValue(d) ==
    IF d = <<>> THEN 0
    ELSE 10 * DecimalValue(SubSeq(d, 1, Len(d) - 1)) + (PosIn(Digits, d[Len(d)]) - 1)

AllDigits(d) == d # <<>> /\ \A i \in 1..Len(d) : IsDigit(d[i])

\* str is HH:MM:SS.mmm (two digits or more of hours, two of minutes, two
\* of seconds, three of milliseconds) and stands for timeMs milliseconds
IsTimestampOf(str, timeMs) ==
    \E c1, c2, dot \in 1..Len(str) :
        /\ c1 < c2 /\ c2 < dot
        /\ str[c1] = ":" /\ str[c2] = ":" /\ str[dot] = "."
        /\ LET hh == SubSeq(str, 1, c1 - 1)
               mm == SubSeq(str, c1 + 1, c2 - 1)
               ss == SubSeq(str, c2 + 1, dot - 1)
               ms == SubSeq(str, dot + 1, Len(str))
           IN  /\ AllDigits(hh) /\ AllDigits(mm) /\ AllDigits(ss) /\ AllDigits(ms)
               /\ Len(hh) >= 2 /\ Len(mm) = 2 /\ Len(ss) = 2 /\ Len(ms) = 3
               /\ DecimalValue(mm) \in 0..59
               /\ DecimalValue(ss) \in 0..59
               /\ DecimalValue(ms) \in 0..999
               /\ DecimalValue(hh) * 3600000 + DecimalValue(mm) * 60000
                      + DecimalValue(ss) * 1000 + DecimalValue(ms) = timeMs

\* C23: the timestamp createThumbnailWithFFmpeg passes to the frame
\* extractor for the offset timeMs is HH:MM:SS.mmm with minutes and seconds
\* in 0..59 and milliseconds in 0..999, and its value is timeMs.
C23_TimestampIsOffset ==
    (fn.name = "createThumbnailWithFFmpeg" /\ fn.done) => IsTimestampOf(fn.out, fn.in)

\* each of the three errors is returned in its case and in no other
PosterErrorsDistinct ==
    \A apiKey \in ApiKeys, movieTitle \in MovieTitles, reply \in SearchReplies :
        LET err == PosterSearch(apiKey, movieTitle, reply).err
            answered == apiKey # <<>> /\ reply.kind = "ok"
        IN  /\ err = "apikey" <=> apiKey = <<>>
            /\ err = "noresults" <=> (answered /\ reply.results = <<>>)
            /\ err = "noposter" <=>
                  /\ answered
                  /\ reply.results # <<>>
                  /\ LET p == PosterSearch(apiKey, movieTitle, reply).movie.PosterPath
                     IN  p.nil \/ p.s = <<>>

\* C24: a FetchMoviePoster call ends with the error of a missing API key,
\* of an empty result list or of a match without poster exactly in that
\* case, the three errors differ, and such a call has done nothing else: no
\* delete, no upload, no scratch file, no Flush.
C24_LookupErrorsTouchNothing ==
    /\ PosterErrorsDistinct
    /\ \A m \in Mutators :
          (op[m] = "poster" /\ res[m] \in {"apikey", "noresults", "noposter"}) =>
              /\ mu[m].steps = <<[s |-> res[m], ok |-> FALSE]>>
              /\ ~mu[m].dirty
              /\ mu[m].nflush = 0
              /\ mu[m].wrote = {}
              /\ mu[m].defers = <<>>

\* one call has returned for an empty result list, the other for a match
\* without poster
C24_Witness ==
    /\ op["m1"] = "poster" /\ res["m1"] = "noresults" /\ pc["m1"] = "done"
    /\ op["m2"] = "poster" /\ res["m2"] = "noposter" /\ pc["m2"] = "done"

\* two characters that are equal but for the case of a letter
SameLetter(x, y) ==
    \/ x = y
    \/ PosIn(Upper, x) > 0 /\ PosIn(Upper, x) = PosIn(Lower, y)
    \/ PosIn(Lower, x) > 0 /\ PosIn(Lower, x) = PosIn(Upper, y)

\* a equals b case-insensitively; a contains b case-insensitively
EqualFold(a, b) == Len(a) = Len(b) /\ \A i \in 1..Len(a) : SameLetter(a[i], b[i])
ContainsFold(a, b) ==
    \E i \in 0..(Len(a) - Len(b)) : EqualFold(SubSeq(a, i + 1, i + Len(b)), b)

\* i is the first index of list whose element satisfies P
IsFirst(list, i, P(_)) == P(list[i]) /\ \A j \in 1..(i - 1) : ~P(list[j])

\* C25: the match is selected when and only when the search gave a list
\* of results that is not empty; it is the first result whose title equals
\* the cleaned title case-insensitively, if there is none the first whose
\* title contains it case-insensitively, if there is none the first result.
C25_BestMatchByRule ==
    (fn.name = "FetchMoviePoster" /\ fn.done) =>
        LET results == fn.in.reply.results
            title == fn.out.query
            Exact(movie) == EqualFold(movie.Title, title)
            Partial(movie) == ContainsFold(movie.Title, title)
        IN  /\ fn.out.matched <=>
                  (fn.in.apiKey # <<>> /\ fn.in.reply.kind = "ok" /\ results # <<>>)
            /\ fn.out.matched =>
                  /\ fn.out.from = results
                  /\ \E i \in 1..Len(results) :
                        /\ fn.out.movie = results[i]
                        /\ \/ IsFirst(results, i, Exact)
                           \/ /\ \A j \in 1..Len(results) : ~Exact(results[j])
                              /\ IsFirst(results, i, Partial)
                           \/ /\ \A j \in 1..Len(results) : ~Partial(results[j])
                              /\ i = 1

\* the second result is selected for its title that equals the cleaned
\* title but for the case, the first one contains the title
C25_Witness ==
    /\ fn.name = "FetchMoviePoster" /\ fn.done /\ fn.out.matched
    /\ Len(fn.out.from) = 2
    /\ fn.out.movie = fn.out.from[2]
    /\ fn.out.movie.Title # fn.out.query
    /\ EqualFold(fn.out.movie.Title, fn.out.query)
    /\ ContainsFold(fn.out.from[1].Title, fn.out.query)
    /\ ~EqualFold(fn.out.from[1].Title, fn.out.query)

Inception ==
    <<"I", "n", "c", "e", "p", "t", "i", "o", "n", " ", "(", "2", "0", "1", "0", ")", " ",
      "[", "1", "0", "8", "0", "p", "]">>

\* raw cut at the earliest "(" or "[", the whole of raw when it has neither
CutAtBracket(raw) ==
    LET at == {i \in 1..Len(raw) : raw[i] \in {"(", "["}}
    IN  IF at = {} THEN raw
        ELSE SubSeq(raw, 1, (CHOOSE i \in at : \A j \in at : i <= j) - 1)

\* s without the spaces around it
Trimmed(s) ==
    LET inner == {i \in 1..Len(s) : s[i] # " "}
    IN  IF inner = {} THEN <<>>
        ELSE SubSeq(s, CHOOSE i \in inner : \A j \in inner : i <= j,
                       CHOOSE i \in inner : \A j \in inner : i >= j)

\* C26: the query FetchMoviePoster sends to the search is the title cut at
\* the earliest "(" or "[" with the spaces around it trimmed ("Inception
\* (2010) [1080p]" gives "Inception"); the title it was called with and the
\* bucket are what they were.
C26_QueryIsCleanedTitle ==
    (fn.name = "FetchMoviePoster" /\ fn.done /\ fn.out.sent) =>
        /\ fn.out.query = Trimmed(CutAtBracket(fn.in.movieTitle))
        /\ fn.in.movieTitle = Inception =>
              fn.out.query = <<"I", "n", "c", "e", "p", "t", "i", "o", "n">>
        /\ bucket = bucket0

\* the search for "Inception (2010) [1080p]" was sent
C26_Witness ==
    /\ fn.name = "FetchMoviePoster" /\ fn.done /\ fn.out.sent
    /\ fn.in.movieTitle = Inception
    /\ fn.out.query = <<"I", "n", "c", "e", "p", "t", "i", "o", "n">>

\* the samples of an image: every step-th column and row from the top-left
\* pixel, the step a tenth of the size (1 for a size below 10)
SamplesOf(img) ==
    LET Step(n) == IF n < 10 THEN 1 ELSE n \div 10
    IN  {<<kx * Step(img.width), ky * Step(img.height)>> :
            kx \in 0..((img.width - 1) \div Step(img.width)),
            ky \in 0..((img.height - 1) \div Step(img.height))}

\* the samples that differ from the top-left pixel by more than 256 in one
\* of the four channels
DifferentSamples(img) ==
    {p \in SamplesOf(img) :
        LET first == ImageAt(img, 0, 0)
            this == ImageAt(img, p[1], p[2])
        IN  \/ first.r - this.r > 256 \/ this.r - first.r > 256
            \/ first.g - this.g > 256 \/ this.g - first.g > 256
            \/ first.b - this.b > 256 \/ this.b - first.b > 256
            \/ first.a - this.a > 256 \/ this.a - first.a > 256}

\* C27: validateThumbnail rejects an image when and only when the samples
\* that differ from the top-left pixel beyond the tolerance are fewer than
\* 1% of the samples; an image whose samples are all identical is rejected.
C27_RejectsBelowOnePercent ==
    (fn.name = "validateThumbnail" /\ fn.done) =>
        /\ fn.out = "solid" <=>
              100 * Cardinality(DifferentSamples(fn.in)) < Cardinality(SamplesOf(fn.in))
        /\ (\A p \in SamplesOf(fn.in) : ImageAt(fn.in, p[1], p[2]) = ImageAt(fn.in, 0, 0))
              => fn.out = "solid"

\* an image of 100 samples of which exactly one differs is accepted
C27_Witness ==
    /\ fn.name = "validateThumbnail" /\ fn.done
    /\ Cardinality(SamplesOf(fn.in)) = 100
    /\ Cardinality(DifferentSamples(fn.in)) = 1
    /\ fn.out = "ok"

\* the part of a path before its query
WithoutQuery(path) ==
    IF \E i \in 1..Len(path) : path[i] = "?"
    THEN SubSeq(path, 1, (CHOOSE i \in 1..Len(path) :
                            path[i] = "?" /\ \A j \in 1..(i - 1) : path[j] # "?") - 1)
    ELSE path

\* the file name of a path that does not end in a slash
FileName(path) ==
    IF \E i \in 1..Len(path) : path[i] = "/"
    THEN SubSeq(path, 1 + (CHOOSE i \in 1..Len(path) :
                            path[i] = "/" /\ \A j \in (i + 1)..Len(path) : path[j] # "/"),
                Len(path))
    ELSE path

\* sub occurs in s
Occurs(sub, s) ==
    \E i \in 0..(Len(s) - Len(sub)) : SubSeq(s, i + 1, i + Len(sub)) = sub

\* the longest name a shortened name may have: the kept characters, the
\* dash, the digest, and an extension as long as the longest name that is
\* not shortened
SafeNameBound == ShortNameLen + 1 + 16 + MaxBaseNameLen

\* C28: getSafeFilename returns the base name unchanged when it has at most
\* 200 characters, and for a longer one a name that contains a hash of the
\* full path and is no longer than a bound that does not depend on the input.
C28_SafeNameIsBounded ==
    (fn.name = "getSafeFilename" /\ fn.done) =>
        LET path == WithoutQuery(fn.in)
        IN  IF Len(FileName(path)) <= 200
            THEN fn.out = FileName(path)
            ELSE /\ Occurs(Sha256Hex8(path), fn.out)
                 /\ Len(fn.out) <= SafeNameBound

\* the scratch paths a run of the pipeline for videoPath uses
ScratchPathsOf(videoPath) == {tmpVideoPath(videoPath), tmpThumbnailPath(videoPath)}

\* the run of m has computed its scratch paths and has not returned
UsesScratch(m) ==
    /\ op[m] = "generate"
    /\ pc[m] \in {"g_download", "g_extract", "g_validate", "g_upload", "g_flush"}

\* C29: two pipeline runs in flight for two different video keys never use
\* the same scratch path.
C29_ScratchPathsDisjoint ==
    \A m1, m2 \in Mutators :
        (m1 # m2 /\ UsesScratch(m1) /\ UsesScratch(m2) /\ arg[m1] # arg[m2]) =>
            ScratchPathsOf(arg[m1]) \cap ScratchPathsOf(arg[m2]) = {}

\* the page request of p has been answered
Answered(p) == op[p] = "page" /\ pc[p] = "done"

\* the galleries whose stub is the requested path, in the catalog the
\* request of p was served from
Matching(p) ==
    {i \in 1..Len(rd[p].galleries) : rd[p].galleries[i].Stub = arg[p]}

\* C30: a gallery page request whose path is the stub of no gallery of the
\* catalog is answered 404, not with a page and not with a server error;
\* GetGallery returns a gallery exactly when that gallery's stub is the
\* requested path, and the not-found error otherwise.
C30_UnknownStubIsNotFound ==
    \A p \in Readers :
        Answered(p) =>
            /\ Matching(p) = {} => res[p] = "404"
            /\ Matching(p) = {} <=> rd[p].found.err
            /\ ~rd[p].found.err =>
                  \E i \in Matching(p) : rd[p].found.gallery = rd[p].galleries[i]
            /\ rd[p].found.err => rd[p].found.gallery = NoGallery
            /\ res[p] \in {"200", "500"} => ~rd[p].found.err

\* a request for the stub another secret gives a gallery of the catalog is
\* answered 404
C30_Witness ==
    /\ Answered("r3")
    /\ rd["r3"].galleries # <<>>
    /\ \E i \in 1..Len(rd["r3"].galleries) :
          \E k \in {SecretA, SecretB} :
              arg["r3"] = GalleryStub(rd["r3"].galleries[i].Name, k)
    /\ res["r3"] = "404"

\* the events written for the single-generate request of m
Events(m) == mu[m].events

IsError(event) == "error" \in DOMAIN event

IsComplete(event) == ~IsError(event) /\ event.step = "Complete" /\ event.progress = 100

\* the step s of the run of m has been done with success
StepDone(m, s) == \E i \in 1..Len(mu[m].steps) : mu[m].steps[i] = [s |-> s, ok |-> TRUE]

\* C31: the progress events of one single-generate request have percent
\* values within 0..100 that never decrease; at most one error event with
\* progress -1 is written and no event follows it; the event (Complete, 100)
\* is written exactly when the pipeline succeeded, and only after the upload
\* and the cache invalidation.
C31_ProgressStream ==
    \A m \in Mutators :
        op[m] = "generate" =>
            LET ev == Events(m) IN
            /\ \A i \in 1..Len(ev) :
                  IF IsError(ev[i])
                  THEN ev[i].progress = -1 /\ i = Len(ev)
                  ELSE ev[i].progress \in 0..100
            /\ \A i, j \in 1..Len(ev) :
                  (i < j /\ ~IsError(ev[i]) /\ ~IsError(ev[j])) =>
                      ev[i].progress <= ev[j].progress
            /\ (\E i \in 1..Len(ev) : IsComplete(ev[i])) =>
                  /\ res[m] = "ok"
                  /\ StepDone(m, "upload")
                  /\ mu[m].nflush = 1
                  /\ IsComplete(ev[Len(ev)])
            /\ pc[m] = "done" =>
                  /\ res[m] = "ok" <=> \E i \in 1..Len(ev) : IsComplete(ev[i])
                  /\ res[m] # "ok" <=> \E i \in 1..Len(ev) : IsError(ev[i])

\* a request answered with the ten progress events up to (Complete, 100)
C31_Witness ==
    \E m \in Mutators :
        /\ op[m] = "generate" /\ pc[m] = "done"
        /\ Len(Events(m)) = 10
        /\ IsComplete(Events(m)[10])

\* a request that failed at the upload: eight progress events and the error
C31_WitnessError ==
    \E m \in Mutators :
        /\ op[m] = "generate" /\ pc[m] = "done" /\ res[m] = "upload"
        /\ Len(Events(m)) = 9
        /\ IsError(Events(m)[9])

\* C32: in GenerateThumbnailWithProgress a failed delete of the old thumbnail
\* object, also when there is no such object, does not end the pipeline: the
\* step after the pre-clear is the download.
C32_PreClearIsNotFatal ==
    \A m \in Mutators :
        op[m] = "generate" =>
            /\ \A i \in 1..Len(mu[m].steps) :
                  mu[m].steps[i].s = "preclear" =>
                      /\ i < Len(mu[m].steps) => mu[m].steps[i + 1].s = "download"
                      /\ i = Len(mu[m].steps) => pc[m] = "g_download"
            /\ res[m] # "preclear"

\* a run whose pre-clear found no object to delete and that went on to
\* download the video
C32_Witness ==
    \E m \in Mutators :
        /\ op[m] = "generate"
        /\ bucket0[ThumbnailPath(arg[m])] = "none"
        /\ \E i \in 1..(Len(mu[m].steps) - 1) :
              /\ mu[m].steps[i] = [s |-> "preclear", ok |-> FALSE]
              /\ mu[m].steps[i + 1] = [s |-> "download", ok |-> TRUE]

\* the columns and the rows validateThumbnail samples
SampledColumns(img) == {p[1] : p \in SamplePositions(img)}
SampledRows(img) == {p[2] : p \in SamplePositions(img)}

\* every step-th index below size, from 0
EveryNth(size, step) == {k * step : k \in 0..((size - 1) \div step)}

\* max(1, size / 10)
StepOf(size) == IF size \div 10 >= 1 THEN size \div 10 ELSE 1

\* the validator samples the image of the call with the step
\* max(1, dimension/10) on each axis, and takes at least one sample
SamplesByStep ==
    /\ SamplePositions(fn.in) # {}
    /\ SampledColumns(fn.in) = EveryNth(fn.in.width, StepOf(fn.in.width))
    /\ SampledRows(fn.in) = EveryNth(fn.in.height, StepOf(fn.in.height))
    /\ SamplePositions(fn.in) = SampledColumns(fn.in) \X SampledRows(fn.in)

C34_ChangedBucketFlushes ==
    \A m \in Mutators : pc[m] = "done" => ~mu[m].dirty

\* the call of m is the only call made since the service started
OnlyCall(m) == \A o \in Calls \ {m} : pc[o] = "idle"

\* C35: when a single-item generation returns an error, the bucket holds the
\* objects it held before the call; a thumbnail the video had before the
\* call is still there.
C35_FailedGenerateKeepsBucket ==
    \A m \in Mutators :
        (op[m] = "generate" /\ pc[m] = "done" /\ res[m] # "ok" /\ OnlyCall(m)) =>
            /\ Present(bucket) = Present(bucket0)
            /\ bucket0[ThumbnailPath(arg[m])] # "none" =>
                  bucket[ThumbnailPath(arg[m])] # "none"

\* C36: naturalLess is a strict weak ordering on names: no name is less than
\* itself, of two names at most one is less than the other, a name less than
\* a second that is less than a third is less than the third, and no three
\* names go round in a circle; also with spaces and leading zeros.
C36_StrictWeakOrdering ==
    (fn.name = "naturalLess" /\ fn.done) =>
        LET less == fn.out IN
        /\ \A i \in 1..3 : ~less[i][i]
        /\ \A i, j \in 1..3 : less[i][j] => ~less[j][i]
        /\ \A i, j, k \in 1..3 : (less[i][j] /\ less[j][k]) => less[i][k]
        /\ ~(less[1][2] /\ less[2][3] /\ less[3][1])

\* the videos of the feed p was answered with: those of every gallery
FeedVideosOf(p) ==
    UNION {{rd[p].galleries[i].Videos[j] : j \in 1..Len(rd[p].galleries[i].Videos)} :
              i \in 1..Len(rd[p].galleries)}

\* C37: every Video of the catalog and of the feed belongs to a video object
\* of the bucket and has a url: an image without a video of its name, and an
\* object of three segments whose extension is neither a video nor an image
\* extension, give no Video.
C37_EveryVideoHasAnObject ==
    \A p \in {"r1", "r2"} :
        rd[p].how = "scan" =>
            \A v \in VideosOf(p) \cup FeedVideosOf(p) :
                /\ v.Url # <<>>
                /\ v.VideoPath \in CatalogPresent
                /\ isVideo(v.VideoPath)

\* the image objects the bucket holds for the base key of videoPath
ImagesFor(videoPath) ==
    {k \in Thumbs : bucket[k] # "none" /\ BasePath(k) = BasePath(videoPath)}

\* C38: after a successful single-item generation for a video, and after a
\* successful forced bulk generation for every video, the bucket holds one
\* image object for the video's base key, the new .jpg; an old thumbnail
\* with the extension .png or .jpeg is not left beside it.
C38_OneThumbnailPerVideo ==
    \A m \in Mutators :
        (pc[m] = "done" /\ res[m] = "ok" /\ OnlyCall(m)) =>
            /\ op[m] = "generate" => ImagesFor(arg[m]) = {ThumbnailPath(arg[m])}
            /\ (op[m] = "bulkgen" /\ arg[m] = TRUE /\ mu[m].errors = 0) =>
                  \A v \in Videos : ImagesFor(v) = {ThumbnailPath(v)}

\* C39: a catalog call that cannot create the storage client returns an
\* empty catalog and leaves the cache entry as it was, so that the next call
\* does not find the empty result in the cache: it scans (or fails) again.
C39_FailedClientCachesNothing ==
    [][ \A p \in {"r1", "r2"} :
            /\ (rd[p].how # "fail" /\ rd'[p].how = "fail") =>
                  /\ rd'[p].videos = <<>>
                  /\ cache' = cache
            /\ (rd[p].how = "fail" /\ pc'[p] = "done") => rd'[p].categories = <<>>
            /\ (rd["r1"].how = "fail" /\ ~cache.present) => rd'["r2"].how # "hit"
      ]_vars

\* the first call could not create the storage client and returned an empty
\* catalog; the second call scanned a bucket that holds a video and returned
\* it
C39_Witness ==
    /\ rd["r1"].how = "fail" /\ pc["r1"] = "done" /\ rd["r1"].categories = <<>>
    /\ rd["r2"].how = "scan" /\ pc["r2"] = "done" /\ rd["r2"].videos # <<>>
====
